---------------------------- MODULE Spec2Model ----------------------------
(***************************************************************************)
(* Asteroids (Randy2222222/Asteroids): the simulation core of the final    *)
(* variant, src/unnamed/part_003 ("CLEAN REWRITE", virtual world           *)
(* 1200 x 1200).                                                           *)
(*                                                                         *)
(* Numbers.  JavaScript numbers are modelled in fixed point: a length or a *)
(* velocity component is an integer count of 1/Unit pixel, so that the     *)
(* sub-pixel speeds of the code (asteroids 0.2 .. 1.8, saucers 1.2 .. 2.0, *)
(* saucer bullets 5.5, thrust 0.08) are representable.  Time is counted in *)
(* frames of 1000/FRAME_RATE ms, the unit Saucer.update converts dt to;    *)
(* the millisecond constants of the code are converted by Frames.          *)
(* Math.random() is a draw from a small set, passed to the action as rnd.  *)
(***************************************************************************)
EXTENDS Integers, Sequences, FiniteSets, TLC

\* ------------------------------------------------------------------------
\* Program constants
\* ------------------------------------------------------------------------
VW == 1200
VH == 1200
FRAME_RATE == 60
SHIP_R == 15
BULLET_SPEED == 6
SAUCER_SCORE == 1000
SAUCER_SPAWN_MIN == 40000
SAUCER_SPAWN_MAX == 120000
ASTEROID_SCORE == 100
SPLIT_R == 20
SPLIT_OFFSET == 4
SAUCER_R == 18
SAUCER_MARGIN == 80
SAUCER_START == 60
SAUCER_BULLET_INVULN == 240
ASTEROID_INVULN == 90
WAVE_DELAY_MS == 600
FIRE_MIN_MS == 600
FIRE_MAX_MS == 1400
START_LIVES == 3
FIRST_WAVE == 5
AUTOFIRE_MS == 200
\* the fixed build, part_002
FIXED_MAX_SCREEN_TRAVEL_DECI == 15
FIXED_SAUCER_SPAWN_MIN == 15000
FIXED_INVULN == 90
FIXED_HIT_PARTICLES == 16
FIXED_CRASH_PARTICLES == 20
\* the polished build, part_001
POLISHED_MAX_SCREEN_TRAVEL_DECI == 15
\* the hardcore build at the top of game.js
HARDCORE_SAUCER_SPAWN_MIN == 15000
HARDCORE_RANGE_DECI == 15
HARDCORE_HIT_PARTICLES == 16
HARDCORE_CRASH_PARTICLES == 20
\* 0.08 (thrust per tick) in hundredths, 0.995 (drag) in thousandths,
\* 5.5 (saucer bullet speed) in tenths, 0.8 / 0.6 / 1 (bullet range as a
\* fraction of the world) in tenths
THRUST_CENTI == 8
DRAG_MILLI == 995
SAUCER_BULLET_SPEED_DECI == 55
BULLET_X_SCREEN_TRAVEL_DECI == 8
BULLET_Y_SCREEN_TRAVEL_DECI == 6
BULLET_MAX_SCREEN_TRAVEL_DECI == 10
ASTEROID_PARTICLES == 10
SAUCER_PARTICLES == 16
SHIP_PIECES == 12

\* Fixed-point resolution: units per pixel.
Unit == 100

\* ------------------------------------------------------------------------
\* Bounds of the model
\* ------------------------------------------------------------------------
\* calls of loop() in a behaviour of Spec / of SpecLong
MaxTicks == 3
MaxLongTicks == 272
\* frames that pass before the first tap in a behaviour of SpecLong
MaxIdleTicks == 1
\* input events (fire, rotate, thrust) delivered in a behaviour of Spec / of
\* SpecLong
MaxEvents == 2
MaxLongEvents == 1
\* calls of loop() in a behaviour of SpecFlight
MaxFlightTicks == 220
\* calls of loop() in a behaviour of SpecWave
MaxWaveTicks == 250
\* calls of loop() / shots in a behaviour of SpecHardcore
MaxHardcoreTicks == 204
MaxHardcoreShots == 1
\* calls of loop() in a behaviour of SpecBurst, and the frames between two
\* shots of its key repeat
MaxBurstTicks == 150
KeyRepeatFrames == 2
\* the last wave LayoutGallery has asteroids for
MaxBurstWave == 3
\* calls of loop() / shots in a behaviour of SpecFixed
MaxFixedTicks == 245
MaxFixedShots == 1
\* calls of loop() in a behaviour of SpecPolished
MaxPolishedTicks == 212
\* calls of loop() in a behaviour of SpecSplit, and the last wave
\* LayoutBoulders has asteroids for
MaxSplitTicks == 200
MaxSplitWave == 2
\* calls of loop() in a behaviour of SpecCross that find no saucer
MaxCrossTicks == 8
\* calls of loop() / shots in a behaviour of SpecSiren
MaxSirenTicks == 280
MaxSirenShots == 1
\* the coordinates of SpecWrap reach MaxWrapSpan quarters of the world extent
\* to either side of 0
MaxWrapSpan == 12
\* calls of Ship.update in a behaviour of SpecCoast
MaxCoastTicks == 4
\* canvas taps received in a behaviour
MaxTaps == 3
\* heading steps of 0.08 rad the ship turns away from its initial heading
MaxTurn == 2

\* ------------------------------------------------------------------------
\* Arithmetic
\* ------------------------------------------------------------------------
Abs(x) == IF x < 0 THEN -x ELSE x

\* JavaScript a % n (n > 0): the sign of the result is the sign of a.
JsMod(a, n) == IF a >= 0 THEN a % n ELSE -((-a) % n)

\* a / b (b > 0) cut to the fixed-point grid, toward zero.
TDiv(a, b) == IF a >= 0 THEN a \div b ELSE -((-a) \div b)

\* milliseconds -> frames (1 frame = 1000 / FRAME_RATE ms)
Frames(ms) == (ms * FRAME_RATE) \div 1000

VWu == VW * Unit
VHu == VH * Unit

\* wrapX, were the "+ VW" missing
wrapX_NoOffset(x) == JsMod(x, VWu)
wrapX(x) == JsMod(x + VWu, VWu)
wrapY(y) == JsMod(y + VHu, VHu)

distLess_OrEqual(ax, ay, bx, by, r) ==
    /\ Abs(ax - bx) <= r
    /\ Abs(ay - by) <= r
    /\ (ax - bx) * (ax - bx) + (ay - by) * (ay - by) <= r * r

\* dist(ax, ay, bx, by) < r, decided exactly on the integers: the hypotenuse
\* is below r iff both legs are and the squares add up to less than r * r.
distLess(ax, ay, bx, by, r) ==
    LET dx == ax - bx
        dy == ay - by
    IN  /\ Abs(dx) < r
        /\ Abs(dy) < r
        /\ dx * dx + dy * dy < r * r

\* cos and sin, times 1000, of the ship heading a = -PI/2 + 0.08 * h
\* (h turns of ship.rot = +-0.08): cos a = sin(0.08 h), sin a = -cos(0.08 h).
SinTurn == <<0, 80, 159, 238, 315, 389, 462>>
CosTurn == <<1000, 997, 987, 971, 949, 921, 887>>
HeadingCos(h) == IF h >= 0 THEN SinTurn[h + 1] ELSE -SinTurn[(-h) + 1]
HeadingSin(h) == -CosTurn[Abs(h) + 1]

\* The 16 compass directions k * 22.5 degrees, as vectors of length 1000.
Compass ==
    << <<1000, 0>>, <<924, 383>>, <<707, 707>>, <<383, 924>>,
       <<0, 1000>>, <<-383, 924>>, <<-707, 707>>, <<-924, 383>>,
       <<-1000, 0>>, <<-924, -383>>, <<-707, -707>>, <<-383, -924>>,
       <<0, -1000>>, <<383, -924>>, <<707, -707>>, <<924, -383>> >>

\* ------------------------------------------------------------------------
\* Sequences
\* ------------------------------------------------------------------------
RemoveAt(s, i) == SubSeq(s, 1, i - 1) \o SubSeq(s, i + 1, Len(s))

\* the last index of s whose element satisfies P, 0 if there is none: the
\* first match of a loop that runs from s.length - 1 down to 0
LastIndex(s, P(_)) ==
    LET hits == {k \in 1..Len(s) : P(s[k])}
    IN  IF hits = {} THEN 0 ELSE CHOOSE k \in hits : \A m \in hits : m <= k

Repeat(e, n) == [i \in 1..n |-> e]


\* ------------------------------------------------------------------------
\* Entities
\* ------------------------------------------------------------------------
\* new Ship(): heading a counts turns of 0.08 rad from -PI/2, rot is the
\* turn per tick (-1, 0, 1 for -0.08, 0, 0.08).
NewShip ==
    [x |-> (VWu \div 2), y |-> (VHu \div 2), a |-> 0, rot |-> 0,
     vx |-> 0, vy |-> 0, thrusting |-> FALSE,
     lives |-> START_LIVES, invuln |-> 0]

\* Ship.update(), were the invuln counter left alone
ShipUpdate_NoCountdown(s) ==
    LET a2  == s.a + s.rot
        vx1 == IF s.thrusting
               THEN s.vx + TDiv(((THRUST_CENTI * Unit) \div 100) * HeadingCos(a2), 1000)
               ELSE s.vx
        vy1 == IF s.thrusting
               THEN s.vy + TDiv(((THRUST_CENTI * Unit) \div 100) * HeadingSin(a2), 1000)
               ELSE s.vy
        vx2 == TDiv(vx1 * DRAG_MILLI, 1000)
        vy2 == TDiv(vy1 * DRAG_MILLI, 1000)
    IN  [s EXCEPT !.a = a2, !.vx = vx2, !.vy = vy2,
                  !.x = wrapX(s.x + vx2), !.y = wrapY(s.y + vy2)]

\* Ship.update()
ShipUpdate(s) ==
    LET a2  == s.a + s.rot
        vx1 == IF s.thrusting
               THEN s.vx + TDiv(((THRUST_CENTI * Unit) \div 100) * HeadingCos(a2), 1000)
               ELSE s.vx
        vy1 == IF s.thrusting
               THEN s.vy + TDiv(((THRUST_CENTI * Unit) \div 100) * HeadingSin(a2), 1000)
               ELSE s.vy
        vx2 == TDiv(vx1 * DRAG_MILLI, 1000)
        vy2 == TDiv(vy1 * DRAG_MILLI, 1000)
    IN  [s EXCEPT !.a = a2, !.vx = vx2, !.vy = vy2,
                  !.x = wrapX(s.x + vx2), !.y = wrapY(s.y + vy2),
                  !.invuln = IF s.invuln > 0 THEN s.invuln - 1 ELSE s.invuln]

\* new Bullet(x, y, a), a given as the unit vector c (times 1000)
BulletAlong(x, y, c) ==
    [x |-> x, y |-> y,
     dx |-> TDiv(BULLET_SPEED * Unit * c[1], 1000),
     dy |-> TDiv(BULLET_SPEED * Unit * c[2], 1000),
     distX |-> 0, distY |-> 0]

\* new Bullet(x, y, a), a the ship heading after h turns
NewBullet(x, y, h) == BulletAlong(x, y, <<HeadingCos(h), HeadingSin(h)>>)

BulletMaxX == (VWu * BULLET_X_SCREEN_TRAVEL_DECI) \div 10
BulletMaxY == (VHu * BULLET_Y_SCREEN_TRAVEL_DECI) \div 10

BulletUpdate(b) ==
    [b EXCEPT !.x = wrapX(b.x + b.dx), !.y = wrapY(b.y + b.dy),
              !.distX = b.distX + Abs(b.dx), !.distY = b.distY + Abs(b.dy)]

\* "get alive()", were the range along y not tested
BulletAlive_XOnly(b) == b.distX < BulletMaxX
BulletAlive(b) == b.distX < BulletMaxX /\ b.distY < BulletMaxY

\* new Asteroid(x, y, r) with the velocity v = <<dx, dy>> its constructor drew
NewAsteroid(x, y, r, v) == [x |-> x, y |-> y, r |-> r, dx |-> v[1], dy |-> v[2]]

AsteroidUpdate(a) == [a EXCEPT !.x = wrapX(a.x + a.dx), !.y = wrapY(a.y + a.dy)]

\* new Saucer() with the draws d = [side, y, speed, fireTimer] of its
\* constructor; sound is TRUE while the saucer owns a looping sound node
NewSaucer(d, hasBuffer) ==
    [side |-> d.side,
     x |-> IF d.side < 0 THEN -(SAUCER_START * Unit) ELSE VWu + SAUCER_START * Unit,
     y |-> d.y,
     speed |-> IF d.side < 0 THEN d.speed ELSE -d.speed,
     r |-> SAUCER_R * Unit, fireTimer |-> d.fireTimer, alive |-> TRUE,
     sound |-> hasBuffer]

\* the first part of Saucer.update(dt), were the two exit tests missing
SaucerMove_NoExit(s, dt) == [s EXCEPT !.x = s.x + s.speed * dt]

\* the part of Saucer.update(dt) before "if (!this.alive) return"
SaucerMove(s, dt) ==
    LET x2   == s.x + s.speed * dt
        gone == \/ (s.side < 0 /\ x2 > VWu + SAUCER_MARGIN * Unit)
                \/ (s.side > 0 /\ x2 < -(SAUCER_MARGIN * Unit))
    IN  [s EXCEPT !.x = x2,
                  !.alive = IF gone THEN FALSE ELSE s.alive,
                  !.sound = IF gone THEN FALSE ELSE s.sound]

SaucerFires_AfterExit(m, dt) == m.fireTimer - dt <= 0

\* whether the saucer, moved, fires in this update
SaucerFires(m, dt) == m.alive /\ m.fireTimer - dt <= 0

\* Saucer.update(dt) on the saucer itself; fire is the redrawn fireTimer
SaucerUpdate(s, dt, fire) ==
    LET m == SaucerMove(s, dt)
    IN  IF ~m.alive THEN m
        ELSE [m EXCEPT !.fireTimer = IF SaucerFires(m, dt) THEN fire
                                     ELSE m.fireTimer - dt]

\* base + inacc of Saucer.update: the bearing from (sx, sy) to (tx, ty) is
\* atan2(dy, dx), and the shot leaves along a compass direction within
\* atan(1/4) = 0.245 rad of it (the code allows an error of up to 0.25 rad);
\* pick chooses among the directions that qualify.
AimDirection(sx, sy, tx, ty, pick) ==
    LET dx0 == tx - sx
        dy0 == ty - sy
        dx  == IF dx0 = 0 /\ dy0 = 0 THEN 1 ELSE dx0
        dy  == dy0
        ok  == {k \in 1..16 :
                  LET c     == Compass[k]
                      dot   == c[1] * dx + c[2] * dy
                      cross == c[1] * dy - c[2] * dx
                  IN  dot > 0 /\ 4 * Abs(cross) <= dot}
        lo  == CHOOSE k \in ok : \A m \in ok : k <= m
        hi  == CHOOSE k \in ok : \A m \in ok : m <= k
    IN  Compass[IF pick = 0 THEN lo ELSE hi]

SaucerBulletSpeed == (SAUCER_BULLET_SPEED_DECI * Unit) \div 10
SaucerBulletMaxDist ==
    ((IF VWu > VHu THEN VWu ELSE VHu) * BULLET_MAX_SCREEN_TRAVEL_DECI) \div 10

\* new SaucerBullet(x, y, a), a given as the unit vector c (times 1000)
NewSaucerBullet(x, y, c) ==
    [x |-> x, y |-> y,
     dx |-> TDiv(SaucerBulletSpeed * c[1], 1000),
     dy |-> TDiv(SaucerBulletSpeed * c[2], 1000),
     dist |-> 0]

\* Math.hypot(dx, dy) of a saucer bullet is its speed 5.5
SaucerBulletUpdate(b) ==
    [b EXCEPT !.x = wrapX(b.x + b.dx), !.y = wrapY(b.y + b.dy),
              !.dist = b.dist + SaucerBulletSpeed]

SaucerBulletAlive(b) == b.dist < SaucerBulletMaxDist

\* new Particle(x, y) with the draws d = [vx, vy, life] of its constructor
NewParticle(x, y, d) == [x |-> x, y |-> y, vx |-> d.vx, vy |-> d.vy, life |-> d.life]

ParticleUpdate(p) == [p EXCEPT !.x = p.x + p.vx, !.y = p.y + p.vy, !.life = p.life - 1]

\* the 12 directions of explodeShip, step PI/6, as vectors of length 1000
PieceDirs ==
    << <<1000, 0>>, <<866, 500>>, <<500, 866>>, <<0, 1000>>,
       <<-500, 866>>, <<-866, 500>>, <<-1000, 0>>, <<-866, -500>>,
       <<-500, -866>>, <<0, -1000>>, <<500, -866>>, <<866, -500>> >>

\* the particles explodeShip(shipObj) pushes; d = [speed, life] are its draws
ShipPieces(s, d) ==
    [i \in 1..SHIP_PIECES |->
        [x |-> s.x, y |-> s.y,
         vx |-> TDiv(PieceDirs[i][1] * d.speed, 1000),
         vy |-> TDiv(PieceDirs[i][2] * d.speed, 1000),
         life |-> d.life]]


\* ------------------------------------------------------------------------
\* State
\* ------------------------------------------------------------------------
VARIABLES
    ship, bullets, asteroids, particles, saucers, saucerBullets,
    score, wave, started, gameOver,
    lastTime,           \* the clock: performance.now() at the latest frame
    saucerNextSpawn,
    waveTimers,         \* due times of the pending wave-reset setTimeout calls
    buffers,            \* whether the sound files were loaded
    activeThrust,       \* activeThrust.src is set
    activeSaucerSound,  \* activeSaucerSound is set
    hitLog,             \* the bullet hits the latest tick resolved, in order
    shipLog,            \* the hits the ship took in that tick, in order
    emptiedAt,          \* the time of the latest tick that emptied asteroids
    probe,              \* the coordinate handed to wrapX / wrapY and what came back
    loops,              \* saucer loop sources started and not stopped
    taps,               \* canvas taps received so far
    sessions,           \* resets (start or restart) done so far
    ticks,              \* calls of loop() so far
    events,             \* input events delivered so far
    view                \* w, h, SCALE, OFFSET_X, OFFSET_Y and the canvas size

vars ==
    <<ship, bullets, asteroids, particles, saucers, saucerBullets,
      score, wave, started, gameOver, lastTime, saucerNextSpawn, waveTimers,
      buffers, activeThrust, activeSaucerSound, hitLog, shipLog, emptiedAt, probe, loops, taps, sessions, ticks,
      events, view>>

\* no coordinate is under test
NoProbe == [axis |-> "none", c |-> 0, r |-> 0]

\* The part of the state a tick of loop() works on, as one record.
World ==
    [ship |-> ship, bullets |-> bullets, asteroids |-> asteroids,
     particles |-> particles, saucers |-> saucers,
     saucerBullets |-> saucerBullets, score |-> score, gameOver |-> gameOver,
     saucerNextSpawn |-> saucerNextSpawn, waveTimers |-> waveTimers,
     activeThrust |-> activeThrust, activeSaucerSound |-> activeSaucerSound,
     hitLog |-> << >>, shipLog |-> << >>, loops |-> loops]

\* resizeCanvas() on a window of sz.w x sz.h CSS pixels at device pixel ratio
\* sz.dpr; SCALE and the offsets are kept in thousandths
resizeCanvas(sz) ==
    LET side  == IF sz.w < sz.h THEN sz.w ELSE sz.h
        scale == (side * 1000) \div VW
    IN  [w |-> sz.w, h |-> sz.h,
         canvasW |-> sz.w * sz.dpr, canvasH |-> sz.h * sz.dpr,
         SCALE |-> scale,
         OFFSET_X |-> (sz.w * 1000 - VW * scale) \div 2,
         OFFSET_Y |-> (sz.h * 1000 - VH * scale) \div 2]

\* the windows the page is shown in: a desktop window and a phone
Screens ==
    { [w |-> 1280, h |-> 720, dpr |-> 1], [w |-> 390, h |-> 844, dpr |-> 3] }

InitialScreen == [w |-> 1280, h |-> 720, dpr |-> 1]

\* ------------------------------------------------------------------------
\* loop(now), step by step
\* ------------------------------------------------------------------------
\* stopSaucerLoop(saucer)
stopSaucerLoop(s) == [s EXCEPT !.sound = FALSE]

\* how many of the saucers of ss hold a loop source
RECURSIVE Sounding(_)
Sounding(ss) ==
    IF Len(ss) = 0 THEN 0 ELSE (IF Head(ss).sound THEN 1 ELSE 0) + Sounding(Tail(ss))

\* how many sources "saucer.sound.src.stop()" stopped where the saucers
\* before became the saucers after: a saucer gives up its handle in
\* stopSaucerLoop only, right after stopping the source
Stopped(before, after) == Sounding(before) - Sounding(after)

\* stopAllSaucerSounds(), were stopSaucerLoop not called on the saucers
stopAllSaucerSounds_ActiveOnly(w) == [w EXCEPT !.activeSaucerSound = FALSE]

\* stopAllSaucerSounds()
stopAllSaucerSounds(w) ==
    [w EXCEPT !.saucers = [i \in 1..Len(w.saucers) |-> stopSaucerLoop(w.saucers[i])],
              !.activeSaucerSound = FALSE,
              !.loops = w.loops - Stopped(w.saucers,
                           [i \in 1..Len(w.saucers) |-> stopSaucerLoop(w.saucers[i])])]

\* explodeAt(x, y, amount)
explodeAt(w, x, y, amount, rnd) ==
    [w EXCEPT !.particles = w.particles \o Repeat(NewParticle(x, y, rnd.part), amount)]

\* explodeShip(ship)
explodeShip(w, rnd) ==
    [w EXCEPT !.particles = w.particles \o ShipPieces(w.ship, rnd.piece)]

\* "UPDATE ENTITIES": ship, bullets (and filter), asteroids, saucers (which
\* may fire), saucer bullets (and filter)
UpdateEntities(w, dt, rnd) ==
    LET ship1   == ShipUpdate(w.ship)
        thrust1 == IF ship1.thrusting THEN (w.activeThrust \/ buffers) ELSE FALSE
        moved   == [i \in 1..Len(w.saucers) |-> SaucerMove(w.saucers[i], dt)]
        firing  == {i \in 1..Len(w.saucers) : SaucerFires(moved[i], dt)}
        shots   == [i \in 1..Len(w.saucers) |->
                       IF i \in firing
                       THEN << NewSaucerBullet(moved[i].x, moved[i].y,
                                 AimDirection(moved[i].x, moved[i].y,
                                              ship1.x, ship1.y, rnd.aim)) >>
                       ELSE << >>]
        RECURSIVE Flat(_)
        Flat(i) == IF i > Len(w.saucers) THEN << >> ELSE shots[i] \o Flat(i + 1)
        sb1     == w.saucerBullets \o Flat(1)
        sb2     == [i \in 1..Len(sb1) |-> SaucerBulletUpdate(sb1[i])]
        b1      == [i \in 1..Len(w.bullets) |-> BulletUpdate(w.bullets[i])]
    IN  [w EXCEPT
           !.ship = ship1,
           !.activeThrust = thrust1,
           !.bullets = SelectSeq(b1, BulletAlive),
           !.asteroids = [i \in 1..Len(w.asteroids) |-> AsteroidUpdate(w.asteroids[i])],
           !.saucers = [i \in 1..Len(w.saucers) |->
                           SaucerUpdate(w.saucers[i], dt, rnd.fire)],
           !.saucerBullets = SelectSeq(sb2, SaucerBulletAlive),
           !.activeSaucerSound = IF firing = {} THEN w.activeSaucerSound ELSE buffers,
           !.loops = w.loops - Stopped(w.saucers, moved)]

\* whether an asteroid of radius r splits when it is destroyed
Splits_AtThreshold(r) == r >= SPLIT_R * Unit
Splits(r) == r > SPLIT_R * Unit

\* "BULLET -> ASTEROID", were the bullet left in bullets
HitAsteroid_KeepBullet(w, i, j, rnd) ==
    LET a    == w.asteroids[j]
        w1   == explodeAt(w, a.x, a.y, ASTEROID_PARTICLES, rnd)
        kids == IF Splits(a.r)
                THEN << NewAsteroid(a.x + SPLIT_OFFSET * Unit, a.y + SPLIT_OFFSET * Unit,
                                    a.r \div 2, rnd.kids[1]),
                        NewAsteroid(a.x - SPLIT_OFFSET * Unit, a.y - SPLIT_OFFSET * Unit,
                                    a.r \div 2, rnd.kids[2]) >>
                ELSE << >>
        w2   == [w1 EXCEPT !.score = w.score + ASTEROID_SCORE,
                           !.asteroids = RemoveAt(w.asteroids, j) \o kids]
    IN  [w2 EXCEPT !.hitLog = Append(w.hitLog,
             [kind |-> "asteroid", target |-> a, bullet |-> w.bullets[i],
              before |-> [bullets |-> w.bullets, asteroids |-> w.asteroids,
                          saucers |-> w.saucers, score |-> w.score],
              after  |-> [bullets |-> w2.bullets, asteroids |-> w2.asteroids,
                          saucers |-> w2.saucers, score |-> w2.score]])]

\* "BULLET -> ASTEROID", were the children as large as their parent
HitAsteroid_FullSizeKids(w, i, j, rnd) ==
    LET a    == w.asteroids[j]
        w1   == explodeAt(w, a.x, a.y, ASTEROID_PARTICLES, rnd)
        kids == IF Splits(a.r)
                THEN << NewAsteroid(a.x + SPLIT_OFFSET * Unit, a.y + SPLIT_OFFSET * Unit,
                                    a.r, rnd.kids[1]),
                        NewAsteroid(a.x - SPLIT_OFFSET * Unit, a.y - SPLIT_OFFSET * Unit,
                                    a.r, rnd.kids[2]) >>
                ELSE << >>
        w2   == [w1 EXCEPT !.score = w.score + ASTEROID_SCORE,
                           !.bullets = RemoveAt(w.bullets, i),
                           !.asteroids = RemoveAt(w.asteroids, j) \o kids]
    IN  [w2 EXCEPT !.hitLog = Append(w.hitLog,
             [kind |-> "asteroid", target |-> a, bullet |-> w.bullets[i],
              before |-> [bullets |-> w.bullets, asteroids |-> w.asteroids,
                          saucers |-> w.saucers, score |-> w.score],
              after  |-> [bullets |-> w2.bullets, asteroids |-> w2.asteroids,
                          saucers |-> w2.saucers, score |-> w2.score]])]

\* "BULLET -> ASTEROID": bullet i destroys asteroid j
HitAsteroid(w, i, j, rnd) ==
    LET a    == w.asteroids[j]
        w1   == explodeAt(w, a.x, a.y, ASTEROID_PARTICLES, rnd)
        kids == IF Splits(a.r)
                THEN << NewAsteroid(a.x + SPLIT_OFFSET * Unit, a.y + SPLIT_OFFSET * Unit,
                                    a.r \div 2, rnd.kids[1]),
                        NewAsteroid(a.x - SPLIT_OFFSET * Unit, a.y - SPLIT_OFFSET * Unit,
                                    a.r \div 2, rnd.kids[2]) >>
                ELSE << >>
        w2   == [w1 EXCEPT !.score = w.score + ASTEROID_SCORE,
                           !.bullets = RemoveAt(w.bullets, i),
                           !.asteroids = RemoveAt(w.asteroids, j) \o kids]
    IN  [w2 EXCEPT !.hitLog = Append(w.hitLog,
             [kind |-> "asteroid", target |-> a, bullet |-> w.bullets[i],
              before |-> [bullets |-> w.bullets, asteroids |-> w.asteroids,
                          saucers |-> w.saucers, score |-> w.score],
              after  |-> [bullets |-> w2.bullets, asteroids |-> w2.asteroids,
                          saucers |-> w2.saucers, score |-> w2.score]])]

\* "BULLET -> SAUCER", were stopSaucerLoop(saucer) not called
HitSaucer_LoopLeftOn(w, i, s, rnd) ==
    LET sc == w.saucers[s]
        w1 == explodeAt(w, sc.x, sc.y, SAUCER_PARTICLES, rnd)
        w2 == [w1 EXCEPT !.score = w.score + SAUCER_SCORE,
                         !.bullets = RemoveAt(w.bullets, i),
                         !.saucers = RemoveAt(w.saucers, s),
                         !.activeSaucerSound = FALSE]
    IN  [w2 EXCEPT !.hitLog = Append(w.hitLog,
             [kind |-> "saucer", target |-> sc, bullet |-> w.bullets[i],
              destroyed |-> sc,
              before |-> [bullets |-> w.bullets, asteroids |-> w.asteroids,
                          saucers |-> w.saucers, score |-> w.score],
              after  |-> [bullets |-> w2.bullets, asteroids |-> w2.asteroids,
                          saucers |-> w2.saucers, score |-> w2.score]])]

\* "BULLET -> SAUCER", were a saucer worth what an asteroid is
HitSaucer_AsteroidScore(w, i, s, rnd) ==
    LET sc == w.saucers[s]
        w1 == explodeAt(w, sc.x, sc.y, SAUCER_PARTICLES, rnd)
        w2 == [w1 EXCEPT !.score = w.score + ASTEROID_SCORE,
                         !.bullets = RemoveAt(w.bullets, i),
                         !.saucers = RemoveAt(w.saucers, s),
                         !.activeSaucerSound = FALSE,
                         !.loops = w.loops - Stopped(<<sc>>, <<stopSaucerLoop(sc)>>)]
    IN  [w2 EXCEPT !.hitLog = Append(w.hitLog,
             [kind |-> "saucer", target |-> sc, bullet |-> w.bullets[i],
              destroyed |-> stopSaucerLoop(sc),
              before |-> [bullets |-> w.bullets, asteroids |-> w.asteroids,
                          saucers |-> w.saucers, score |-> w.score],
              after  |-> [bullets |-> w2.bullets, asteroids |-> w2.asteroids,
                          saucers |-> w2.saucers, score |-> w2.score]])]

\* "BULLET -> SAUCER": bullet i destroys saucer s; the hit is
\* logged with the saucer as stopSaucerLoop leaves it
HitSaucer(w, i, s, rnd) ==
    LET sc == w.saucers[s]
        w1 == explodeAt(w, sc.x, sc.y, SAUCER_PARTICLES, rnd)
        w2 == [w1 EXCEPT !.score = w.score + SAUCER_SCORE,
                         !.bullets = RemoveAt(w.bullets, i),
                         !.saucers = RemoveAt(w.saucers, s),
                         !.activeSaucerSound = FALSE,
                         !.loops = w.loops - Stopped(<<sc>>, <<stopSaucerLoop(sc)>>)]
    IN  [w2 EXCEPT !.hitLog = Append(w.hitLog,
             [kind |-> "saucer", target |-> sc, bullet |-> w.bullets[i],
              destroyed |-> stopSaucerLoop(sc),
              before |-> [bullets |-> w.bullets, asteroids |-> w.asteroids,
                          saucers |-> w.saucers, score |-> w.score],
              after  |-> [bullets |-> w2.bullets, asteroids |-> w2.asteroids,
                          saucers |-> w2.saucers, score |-> w2.score]])]

\* "COLLISION: bullets -> asteroids / saucers", for bullets i, i - 1, .., 1
RECURSIVE BulletCollisions(_, _, _)
BulletCollisions(w, i, rnd) ==
    IF i < 1 THEN w
    ELSE LET b == w.bullets[i]
             HitsA(a) == distLess(b.x, b.y, a.x, a.y, a.r)
             HitsS(s) == distLess(b.x, b.y, s.x, s.y, s.r)
             j == LastIndex(w.asteroids, HitsA)
             s == LastIndex(w.saucers, HitsS)
         IN  IF j > 0 THEN BulletCollisions(HitAsteroid(w, i, j, rnd), i - 1, rnd)
             ELSE IF s > 0 THEN BulletCollisions(HitSaucer(w, i, s, rnd), i - 1, rnd)
             ELSE BulletCollisions(w, i - 1, rnd)

BulletPass(w, rnd) == BulletCollisions(w, Len(w.bullets), rnd)

\* the damage sequence, were the invulnerability window not set
DamageShip_KeepInvuln(w, invuln, rnd) ==
    LET w1 == explodeShip(w, rnd)
    IN  [w1 EXCEPT !.ship = [w.ship EXCEPT
                      !.lives = w.ship.lives - 1,
                      !.x = VWu \div 2, !.y = VHu \div 2,
                      !.vx = 0, !.vy = 0]]

\* the damage sequence both ship collisions apply
DamageShip(w, invuln, rnd) ==
    LET w1 == explodeShip(w, rnd)
        w2 == [w1 EXCEPT !.ship = [w.ship EXCEPT
                            !.lives = w.ship.lives - 1,
                            !.x = VWu \div 2, !.y = VHu \div 2,
                            !.vx = 0, !.vy = 0, !.invuln = invuln]]
    IN  w2

\* the game-over test, were it "ship.lives < 0"
CheckGameOver_BelowZero(w) ==
    IF w.ship.lives < 0 THEN [stopAllSaucerSounds(w) EXCEPT !.gameOver = TRUE] ELSE w

\* "if (ship.lives <= 0) { gameOver = true; stopAllSaucerSounds(); }"
CheckGameOver(w) ==
    IF w.ship.lives <= 0 THEN [stopAllSaucerSounds(w) EXCEPT !.gameOver = TRUE] ELSE w

\* what a hit of the ship is logged with: the state before and after it
Snap(w) ==
    [ship |-> w.ship, bullets |-> w.bullets, asteroids |-> w.asteroids,
     saucerBullets |-> w.saucerBullets, score |-> w.score, gameOver |-> w.gameOver]

\* w1, the state a hit of the ship by element i of its collection made of
\* w0, with the hit logged
LogShipHit(w0, w1, kind, i) ==
    [w1 EXCEPT !.shipLog = Append(w0.shipLog,
        [kind |-> kind, index |-> i, before |-> Snap(w0), after |-> Snap(w1)])]

\* "COLLISION: saucer bullets -> ship", were the matched bullet left in place
SaucerBulletsVsShip_KeepBullet(w, rnd) ==
    IF w.ship.invuln <= 0
    THEN LET Hits(sb) == distLess(sb.x, sb.y, w.ship.x, w.ship.y, SHIP_R * Unit)
             i == LastIndex(w.saucerBullets, Hits)
         IN  IF i = 0 THEN w
             ELSE LogShipHit(w, CheckGameOver(DamageShip(w, SAUCER_BULLET_INVULN, rnd)),
                             "saucerBullet", i)
    ELSE w

\* "COLLISION: saucer bullets -> ship"
SaucerBulletsVsShip(w, rnd) ==
    IF w.ship.invuln <= 0
    THEN LET Hits(sb) == distLess(sb.x, sb.y, w.ship.x, w.ship.y, SHIP_R * Unit)
             i == LastIndex(w.saucerBullets, Hits)
         IN  IF i = 0 THEN w
             ELSE LET w1 == DamageShip(w, SAUCER_BULLET_INVULN, rnd)
                      w2 == [w1 EXCEPT !.saucerBullets = RemoveAt(w.saucerBullets, i)]
                  IN  LogShipHit(w, CheckGameOver(w2), "saucerBullet", i)
    ELSE w

\* "COLLISION: ship -> asteroids", were "if (ship.invuln <= 0)" missing
ShipVsAsteroids_NoInvulnCheck(w, rnd) ==
    LET Hits(a) == distLess(w.ship.x, w.ship.y, a.x, a.y, SHIP_R * Unit + a.r)
        i == LastIndex(w.asteroids, Hits)
    IN  IF i = 0 THEN w
        ELSE CheckGameOver(DamageShip(w, ASTEROID_INVULN, rnd))

\* "COLLISION: ship -> asteroids", were the asteroid destroyed by the crash
ShipVsAsteroids_DestroysAsteroid(w, rnd) ==
    IF w.ship.invuln <= 0
    THEN LET Hits(a) == distLess(w.ship.x, w.ship.y, a.x, a.y, SHIP_R * Unit + a.r)
             i == LastIndex(w.asteroids, Hits)
         IN  IF i = 0 THEN w
             ELSE LogShipHit(w,
                      [CheckGameOver(DamageShip(w, ASTEROID_INVULN, rnd)) EXCEPT
                          !.asteroids = RemoveAt(w.asteroids, i)],
                      "asteroid", i)
    ELSE w

\* "COLLISION: ship -> asteroids"
ShipVsAsteroids(w, rnd) ==
    IF w.ship.invuln <= 0
    THEN LET Hits(a) == distLess(w.ship.x, w.ship.y, a.x, a.y, SHIP_R * Unit + a.r)
             i == LastIndex(w.asteroids, Hits)
         IN  IF i = 0 THEN w
             ELSE LogShipHit(w, CheckGameOver(DamageShip(w, ASTEROID_INVULN, rnd)),
                             "asteroid", i)
    ELSE w

\* maybeSpawnSaucer(now)
maybeSpawnSaucer(w, now, rnd) ==
    IF now >= w.saucerNextSpawn
    THEN [w EXCEPT !.saucers = Append(w.saucers, NewSaucer(rnd.saucer, buffers)),
                   !.saucerNextSpawn = now + rnd.spawn,
                   !.loops = w.loops + Sounding(<<NewSaucer(rnd.saucer, buffers)>>)]
    ELSE w

\* "Saucer cleanup / spawn"
SaucerCleanup(w, now, rnd) ==
    LET IsAlive(s) == s.alive
        w1 == [w EXCEPT !.saucers = SelectSeq(w.saucers, IsAlive)]
        w2 == IF Len(w1.saucers) = 0 THEN stopAllSaucerSounds(w1) ELSE w1
    IN  maybeSpawnSaucer(w2, now, rnd)

\* "PARTICLES"
UpdateParticles(w) ==
    LET Lives(p) == p.life > 0
    IN  [w EXCEPT !.particles =
            SelectSeq([i \in 1..Len(w.particles) |-> ParticleUpdate(w.particles[i])],
                      Lives)]

\* "WAVE RESET": schedules the callback, due 600 ms from now
ScheduleWaveReset(w, now) ==
    IF Len(w.asteroids) = 0
    THEN [w EXCEPT !.waveTimers = w.waveTimers \cup {now + Frames(WAVE_DELAY_MS)}]
    ELSE w

\* "GAME OVER": ship.thrusting = false; stopThrust()
GameOverBlock(w) ==
    IF w.gameOver
    THEN [w EXCEPT !.ship = [w.ship EXCEPT !.thrusting = FALSE], !.activeThrust = FALSE]
    ELSE w

\* the body of loop(now) below the tap-to-start branch
Frame(w, now, dt, rnd) ==
    GameOverBlock(ScheduleWaveReset(UpdateParticles(SaucerCleanup(
        ShipVsAsteroids(SaucerBulletsVsShip(
            BulletPass(UpdateEntities(w, dt, rnd), rnd), rnd), rnd), now, rnd)), now))


\* ------------------------------------------------------------------------
\* Draws of Math.random()
\* ------------------------------------------------------------------------
Px(n) == n * Unit

\* an asteroid as resetAsteroids draws it: x in [0, VW), y in [0, VH),
\* r in [26, 44), speed in [0.2, 1.8)
Drawn(xu, yu, rpx, v) == NewAsteroid(xu, yu, Px(rpx), v)

\* two asteroids that overlap the ship at the world centre and creep up on
\* it from below, out of the line of fire for the first 125 frames
LayoutDrift ==
    << Drawn(Px(150), Px(150), 30, <<0, 100>>),
       Drawn(Px(1050), Px(150), 30, <<100, 0>>),
       Drawn(Px(150), Px(1050), 30, <<0, -100>>),
       Drawn(Px(610), Px(650), 40, <<0, -20>>),
       Drawn(Px(600), Px(650), 40, <<0, -20>>),
       Drawn(Px(1050), Px(1050), 30, <<-100, 0>>),
       Drawn(Px(300), Px(900), 30, <<0, 100>>) >>

\* one asteroid just ahead of the ship's gun, one about to cross the left
\* edge of the world
LayoutTargets ==
    << Drawn(Px(150), Px(150), 30, <<0, 100>>),
       Drawn(Px(1050), Px(150), 30, <<100, 0>>),
       Drawn(Px(150), Px(1050), 30, <<0, -100>>),
       Drawn(50, Px(300), 26, <<-170, 0>>),
       Drawn(Px(600), Px(545), 40, <<100, 0>>),
       Drawn(Px(1050), Px(1050), 30, <<-100, 0>>),
       Drawn(Px(300), Px(900), 30, <<0, 100>>) >>

\* one asteroid that reaches the ship on the second tick
LayoutAmbush ==
    << Drawn(Px(150), Px(150), 30, <<0, 100>>),
       Drawn(Px(1050), Px(150), 30, <<100, 0>>),
       Drawn(Px(150), Px(1050), 30, <<0, -100>>),
       Drawn(50, Px(300), 26, <<-170, 0>>),
       Drawn(Px(600), Px(656), 40, <<0, -100>>),
       Drawn(Px(300), Px(900), 30, <<0, 100>>),
       Drawn(Px(900), Px(300), 30, <<0, 100>>) >>

\* a column of asteroids above the ship, in its line of fire
LayoutGallery ==
    << Drawn(Px(600), Px(520), 30, <<0, -20>>),
       Drawn(Px(600), Px(510), 30, <<0, -20>>),
       Drawn(Px(600), Px(500), 30, <<0, -20>>),
       Drawn(Px(600), Px(490), 30, <<0, -20>>),
       Drawn(Px(600), Px(480), 30, <<0, -20>>),
       Drawn(Px(600), Px(470), 30, <<0, -20>>),
       Drawn(Px(600), Px(460), 30, <<0, -20>>),
       Drawn(Px(600), Px(450), 30, <<0, -20>>) >>

\* a column of the largest asteroids above the ship, in its line of fire
LayoutBoulders ==
    << Drawn(Px(600), Px(520), 43, <<0, -20>>),
       Drawn(Px(600), Px(510), 43, <<0, -20>>),
       Drawn(Px(600), Px(500), 42, <<0, -20>>),
       Drawn(Px(600), Px(490), 42, <<0, -20>>),
       Drawn(Px(600), Px(480), 41, <<0, -20>>),
       Drawn(Px(600), Px(470), 41, <<0, -20>>),
       Drawn(Px(600), Px(460), 41, <<0, -20>>) >>

Layouts == {LayoutTargets, LayoutAmbush}
LongLayouts == {LayoutDrift}

\* the draws of one tick: the velocities of split children, a particle, the
\* pieces of the ship, a redrawn fireTimer, the aim of a saucer, a new saucer
\* and the delay to the next one
SaucerDraws ==
    { [side |-> -1, y |-> Px(600), speed |-> 160, fireTimer |-> Frames(FIRE_MIN_MS)],
      [side |-> 1, y |-> Px(300), speed |-> 199, fireTimer |-> Frames(FIRE_MAX_MS) - 1],
      [side |-> 1, y |-> Px(575), speed |-> 165, fireTimer |-> Frames(FIRE_MIN_MS)] }

Rnd ==
    [kids   : { << <<0, 100>>, <<0, -170>> >> },
     part   : { [vx |-> 100, vy |-> -50, life |-> 20] },
     piece  : { [speed |-> 200, life |-> 30] },
     fire   : { Frames(FIRE_MIN_MS) },
     aim    : { 0 },
     saucer : SaucerDraws,
     spawn  : { Frames(SAUCER_SPAWN_MIN) }]

RndLong ==
    [kids   : { << <<0, 100>>, <<0, -170>> >> },
     part   : { [vx |-> 100, vy |-> -50, life |-> 20] },
     piece  : { [speed |-> 200, life |-> 30] },
     fire   : { Frames(FIRE_MIN_MS) },
     aim    : { 0 },
     saucer : { [side |-> -1, y |-> Px(600), speed |-> 160,
                 fireTimer |-> Frames(FIRE_MIN_MS)] },
     spawn  : { Frames(SAUCER_SPAWN_MIN) }]

RndWave ==
    [kids   : { << <<0, -20>>, <<0, -20>> >> },
     part   : { [vx |-> 100, vy |-> -50, life |-> 20] },
     piece  : { [speed |-> 200, life |-> 30] },
     fire   : { Frames(FIRE_MIN_MS) },
     aim    : { 0 },
     saucer : { [side |-> -1, y |-> Px(600), speed |-> 160,
                 fireTimer |-> Frames(FIRE_MIN_MS)] },
     spawn  : { Frames(SAUCER_SPAWN_MIN) }]

\* the time a frame takes: one frame, or a pause of the page (a hidden tab)
DtChoices == {1, Frames(SAUCER_SPAWN_MIN) \div 6, Frames(SAUCER_SPAWN_MIN)}

\* ------------------------------------------------------------------------
\* Operations
\* ------------------------------------------------------------------------
resetAsteroids_Cleared(wv, layout) == << >>

\* resetAsteroids(): 5 + (wave - 1) asteroids, drawn as layout
resetAsteroids(wv, layout) == [i \in 1..(FIRST_WAVE + (wv - 1)) |-> layout[i]]

\* the state init() leaves
InitWith(layouts, spawns, audio) ==
    /\ ship = NewShip
    /\ bullets = << >>
    /\ \E layout \in layouts : asteroids = resetAsteroids(1, layout)
    /\ particles = << >>
    /\ saucers = << >>
    /\ saucerBullets = << >>
    /\ score = 0
    /\ wave = 1
    /\ started = FALSE
    /\ gameOver = FALSE
    /\ lastTime = 0
    /\ \E d \in spawns : saucerNextSpawn = d
    /\ waveTimers = {}
    /\ buffers \in audio
    /\ activeThrust = FALSE
    /\ activeSaucerSound = FALSE
    /\ hitLog = << >>
    /\ shipLog = << >>
    /\ emptiedAt = 0
    /\ probe = NoProbe
    /\ loops = 0
    /\ taps = 0
    /\ sessions = 0
    /\ ticks = 0
    /\ events = 0
    /\ view = resizeCanvas(InitialScreen)

\* what loop(now) makes of the world, were the tap-to-start branch missing
LoopResult_NoStartGate(dt, rnd) == Frame(World, lastTime + dt, dt, rnd)

\* what loop(now), now = lastTime + dt, makes of the world: nothing before
\* the start ("if (!started) { ...; return; }"), a frame after it
LoopResult(dt, rnd) ==
    IF ~started THEN World ELSE Frame(World, lastTime + dt, dt, rnd)

\* loop(now) with now = lastTime + dt
Loop(dt, rnd) ==
    /\ Abs(ship.a + ship.rot) <= MaxTurn
    /\ lastTime' = lastTime + dt
    /\ ticks' = ticks + 1
    /\ \E w \in {LoopResult(dt, rnd)} :
           /\ ship' = w.ship
           /\ bullets' = w.bullets
           /\ asteroids' = w.asteroids
           /\ particles' = w.particles
           /\ saucers' = w.saucers
           /\ saucerBullets' = w.saucerBullets
           /\ score' = w.score
           /\ gameOver' = w.gameOver
           /\ saucerNextSpawn' = w.saucerNextSpawn
           /\ waveTimers' = w.waveTimers
           /\ activeThrust' = w.activeThrust
           /\ activeSaucerSound' = w.activeSaucerSound
           /\ hitLog' = w.hitLog
           /\ shipLog' = w.shipLog
           /\ emptiedAt' = IF Len(w.asteroids) = 0 /\ Len(asteroids) # 0
                           THEN lastTime + dt ELSE emptiedAt
           /\ probe' = probe
           /\ loops' = w.loops
    /\ UNCHANGED <<view, wave, started, buffers, taps, sessions, events>>

\* the "if (!started)" branch of the canvas touchstart handler
TapStart(layout, spawn) ==
    /\ activeSaucerSound' = stopAllSaucerSounds(World).activeSaucerSound
    /\ loops' = stopAllSaucerSounds(World).loops
    /\ started' = TRUE
    /\ gameOver' = FALSE
    /\ score' = 0
    /\ ship' = NewShip
    /\ bullets' = << >>
    /\ asteroids' = resetAsteroids(1, layout)
    /\ saucers' = << >>
    /\ saucerBullets' = << >>
    /\ particles' = << >>
    /\ wave' = 1
    /\ saucerNextSpawn' = lastTime + spawn

\* the "else if (gameOver)" branch, with "ship = new Ship()" left out
TapRestart_KeepShip(layout, spawn) ==
    /\ activeSaucerSound' = stopAllSaucerSounds(World).activeSaucerSound
    /\ loops' = stopAllSaucerSounds(World).loops
    /\ gameOver' = FALSE
    /\ score' = 0
    /\ ship' = ship
    /\ bullets' = << >>
    /\ asteroids' = resetAsteroids(1, layout)
    /\ saucers' = << >>
    /\ saucerBullets' = << >>
    /\ particles' = << >>
    /\ wave' = 1
    /\ saucerNextSpawn' = lastTime + spawn
    /\ UNCHANGED started

\* the "else if (gameOver)" branch of the canvas touchstart handler
TapRestart(layout, spawn) ==
    /\ activeSaucerSound' = stopAllSaucerSounds(World).activeSaucerSound
    /\ loops' = stopAllSaucerSounds(World).loops
    /\ gameOver' = FALSE
    /\ score' = 0
    /\ ship' = NewShip
    /\ bullets' = << >>
    /\ asteroids' = resetAsteroids(1, layout)
    /\ saucers' = << >>
    /\ saucerBullets' = << >>
    /\ particles' = << >>
    /\ wave' = 1
    /\ saucerNextSpawn' = lastTime + spawn
    /\ UNCHANGED started

\* the handler while playing: neither branch is taken
TapIgnored ==
    UNCHANGED <<activeSaucerSound, started, gameOver, score, ship, bullets,
                asteroids, saucers, saucerBullets, particles, wave,
                saucerNextSpawn, sessions, loops>>

\* the canvas touchstart handler, were "else if (gameOver)" a plain "else"
CanvasTap_RestartWhilePlaying(layout, spawn) ==
    /\ taps' = taps + 1
    /\ IF ~started
       THEN TapStart(layout, spawn) /\ sessions' = sessions + 1
       ELSE TapRestart(layout, spawn) /\ sessions' = sessions + 1
    /\ UNCHANGED <<view, lastTime, waveTimers, buffers, activeThrust, hitLog, shipLog, emptiedAt, probe, ticks, events>>

\* the canvas touchstart handler: start, restart, or (while playing) nothing
CanvasTap(layout, spawn) ==
    /\ taps' = taps + 1
    /\ IF ~started
       THEN TapStart(layout, spawn) /\ sessions' = sessions + 1
       ELSE IF gameOver
            THEN TapRestart(layout, spawn) /\ sessions' = sessions + 1
            ELSE TapIgnored
    /\ UNCHANGED <<view, lastTime, waveTimers, buffers, activeThrust, hitLog, shipLog, emptiedAt, probe, ticks, events>>

\* the resize handler, were it to keep the ship where it is on the screen
ResizeCanvas_MovesShip(sz) ==
    /\ view' = resizeCanvas(sz)
    /\ ship' = [ship EXCEPT
                   !.x = wrapX((ship.x * view.SCALE) \div resizeCanvas(sz).SCALE)]
    /\ UNCHANGED <<bullets, asteroids, particles, saucers, saucerBullets,
                   score, wave, started, gameOver, lastTime, saucerNextSpawn,
                   waveTimers, buffers, activeThrust, activeSaucerSound, hitLog, shipLog, emptiedAt, probe, loops,
                   taps, sessions, ticks, events>>

\* the "resize" / "orientationchange" handler: resizeCanvas()
ResizeCanvas(sz) ==
    /\ view' = resizeCanvas(sz)
    /\ UNCHANGED <<ship, bullets, asteroids, particles, saucers, saucerBullets,
                   score, wave, started, gameOver, lastTime, saucerNextSpawn,
                   waveTimers, buffers, activeThrust, activeSaucerSound, hitLog, shipLog, emptiedAt, probe, loops,
                   taps, sessions, ticks, events>>

\* shoot(), were its first line missing
Shoot_Ungated ==
    /\ events' = events + 1
    /\ bullets' = Append(bullets,
           NewBullet(ship.x + TDiv(HeadingCos(ship.a) * (SHIP_R * Unit), 1000),
                     ship.y + TDiv(HeadingSin(ship.a) * (SHIP_R * Unit), 1000),
                     ship.a))
    /\ UNCHANGED <<view, ship, asteroids, particles, saucers, saucerBullets, score, wave,
                   started, gameOver, lastTime, saucerNextSpawn, waveTimers,
                   buffers, activeThrust, activeSaucerSound, hitLog, shipLog, emptiedAt, probe, loops, taps, sessions, ticks>>

\* shoot(): the "z" key, the fire button, or the 200 ms autofire interval
Shoot ==
    /\ events' = events + 1
    /\ IF ~started \/ gameOver
       THEN UNCHANGED bullets
       ELSE bullets' = Append(bullets,
                NewBullet(ship.x + TDiv(HeadingCos(ship.a) * (SHIP_R * Unit), 1000),
                          ship.y + TDiv(HeadingSin(ship.a) * (SHIP_R * Unit), 1000),
                          ship.a))
    /\ UNCHANGED <<view, ship, asteroids, particles, saucers, saucerBullets, score, wave,
                   started, gameOver, lastTime, saucerNextSpawn, waveTimers,
                   buffers, activeThrust, activeSaucerSound, hitLog, shipLog, emptiedAt, probe, loops, taps, sessions, ticks>>

\* the left / right keys and buttons: ship.rot = -0.08, 0 or 0.08
SetRot(r) ==
    /\ ship.rot # r
    /\ events' = events + 1
    /\ ship' = [ship EXCEPT !.rot = r]
    /\ UNCHANGED <<view, bullets, asteroids, particles, saucers, saucerBullets, score,
                   wave, started, gameOver, lastTime, saucerNextSpawn, waveTimers,
                   buffers, activeThrust, activeSaucerSound, hitLog, shipLog, emptiedAt, probe, loops, taps, sessions, ticks>>

\* the space key and the thrust button: ship.thrusting = true / false
SetThrust(b) ==
    /\ ship.thrusting # b
    /\ events' = events + 1
    /\ ship' = [ship EXCEPT !.thrusting = b]
    /\ UNCHANGED <<view, bullets, asteroids, particles, saucers, saucerBullets, score,
                   wave, started, gameOver, lastTime, saucerNextSpawn, waveTimers,
                   buffers, activeThrust, activeSaucerSound, hitLog, shipLog, emptiedAt, probe, loops, taps, sessions, ticks>>

\* the callback of the wave-reset setTimeout, were "wave++" missing
WaveTimerFire_NoRecheck(layout) ==
    /\ waveTimers # {}
    /\ LET t == CHOOSE u \in waveTimers : \A v \in waveTimers : u <= v
       IN  /\ t <= lastTime
           /\ waveTimers' = waveTimers \ {t}
    /\ wave' = wave + 1
    /\ asteroids' = resetAsteroids(wave + 1, layout)
    /\ UNCHANGED <<view, ship, bullets, particles, saucers, saucerBullets, score,
                   started, gameOver, lastTime, saucerNextSpawn, buffers,
                   activeThrust, activeSaucerSound, hitLog, shipLog, emptiedAt, probe, loops, taps, sessions, ticks, events>>

WaveTimerFire_SameWave(layout) ==
    /\ waveTimers # {}
    /\ LET t == CHOOSE u \in waveTimers : \A v \in waveTimers : u <= v
       IN  /\ t <= lastTime
           /\ waveTimers' = waveTimers \ {t}
    /\ IF Len(asteroids) = 0
       THEN /\ wave' = wave
            /\ asteroids' = resetAsteroids(wave, layout)
       ELSE UNCHANGED <<wave, asteroids>>
    /\ UNCHANGED <<view, ship, bullets, particles, saucers, saucerBullets, score,
                   started, gameOver, lastTime, saucerNextSpawn, buffers,
                   activeThrust, activeSaucerSound, hitLog, shipLog, emptiedAt, probe, loops, taps, sessions, ticks, events>>

\* the callback of the wave-reset setTimeout, once it is due
WaveTimerFire(layout) ==
    /\ waveTimers # {}
    /\ LET t == CHOOSE u \in waveTimers : \A v \in waveTimers : u <= v
       IN  /\ t <= lastTime
           /\ waveTimers' = waveTimers \ {t}
    /\ IF Len(asteroids) = 0
       THEN /\ wave' = wave + 1
            /\ asteroids' = resetAsteroids(wave + 1, layout)
       ELSE UNCHANGED <<wave, asteroids>>
    /\ UNCHANGED <<view, ship, bullets, particles, saucers, saucerBullets, score,
                   started, gameOver, lastTime, saucerNextSpawn, buffers,
                   activeThrust, activeSaucerSound, hitLog, shipLog, emptiedAt, probe, loops, taps, sessions, ticks, events>>

\* ------------------------------------------------------------------------
\* The hardcore build at the top of game.js (no invulnerability); its world
\* is the window, w x h
\* ------------------------------------------------------------------------
HardcoreWindow == [w |-> 800, h |-> 600, dpr |-> 1]

Hw == HardcoreWindow.w * Unit
Hh == HardcoreWindow.h * Unit

HardcoreWrapX(x) == JsMod(x + Hw, Hw)
HardcoreWrapY(y) == JsMod(y + Hh, Hh)

HardcoreNewShip ==
    [x |-> Hw \div 2, y |-> Hh \div 2, a |-> 0, rot |-> 0,
     vx |-> 0, vy |-> 0, thrusting |-> FALSE, lives |-> START_LIVES]

HardcoreShipUpdate(s) ==
    LET a2  == s.a + s.rot
        vx1 == IF s.thrusting
               THEN s.vx + TDiv(((THRUST_CENTI * Unit) \div 100) * HeadingCos(a2), 1000)
               ELSE s.vx
        vy1 == IF s.thrusting
               THEN s.vy + TDiv(((THRUST_CENTI * Unit) \div 100) * HeadingSin(a2), 1000)
               ELSE s.vy
        vx2 == TDiv(vx1 * DRAG_MILLI, 1000)
        vy2 == TDiv(vy1 * DRAG_MILLI, 1000)
    IN  [s EXCEPT !.a = a2, !.vx = vx2, !.vy = vy2,
                  !.x = HardcoreWrapX(s.x + vx2), !.y = HardcoreWrapY(s.y + vy2)]

\* Math.max(w, h) * 1.5
HardcoreMaxDist ==
    ((IF Hw > Hh THEN Hw ELSE Hh) * HARDCORE_RANGE_DECI) \div 10

\* new Bullet(x, y, a), a the ship heading after h turns
HardcoreNewBullet(x, y, h) ==
    [x |-> x, y |-> y,
     dx |-> TDiv(BULLET_SPEED * Unit * HeadingCos(h), 1000),
     dy |-> TDiv(BULLET_SPEED * Unit * HeadingSin(h), 1000),
     dist |-> 0]

\* Bullet.update(): Math.hypot(dx, dy) is BULLET_SPEED
HardcoreBulletUpdate(b) ==
    [b EXCEPT !.x = HardcoreWrapX(b.x + b.dx), !.y = HardcoreWrapY(b.y + b.dy),
              !.dist = b.dist + BULLET_SPEED * Unit]

HardcoreBulletAlive(b) == b.dist < HardcoreMaxDist

HardcoreAsteroidUpdate(a) ==
    [a EXCEPT !.x = HardcoreWrapX(a.x + a.dx), !.y = HardcoreWrapY(a.y + a.dy)]

HardcoreNewSaucer(d) ==
    [side |-> d.side,
     x |-> IF d.side < 0 THEN -(SAUCER_START * Unit) ELSE Hw + SAUCER_START * Unit,
     y |-> d.y,
     speed |-> IF d.side < 0 THEN d.speed ELSE -d.speed,
     r |-> SAUCER_R * Unit, fireTimer |-> d.fireTimer, alive |-> TRUE]

\* Saucer.update(dt) on the saucer itself: a saucer that has left still fires
HardcoreSaucerUpdate(s, dt, fire) ==
    LET x2   == s.x + s.speed * dt
        gone == \/ (s.side < 0 /\ x2 > Hw + SAUCER_MARGIN * Unit)
                \/ (s.side > 0 /\ x2 < -(SAUCER_MARGIN * Unit))
    IN  [s EXCEPT !.x = x2,
                  !.alive = IF gone THEN FALSE ELSE s.alive,
                  !.fireTimer = IF s.fireTimer - dt <= 0 THEN fire
                                ELSE s.fireTimer - dt]

HardcoreSaucerBulletUpdate(b) ==
    [b EXCEPT !.x = HardcoreWrapX(b.x + b.dx), !.y = HardcoreWrapY(b.y + b.dy),
              !.dist = b.dist + SaucerBulletSpeed]

HardcoreSaucerBulletAlive(b) == b.dist < HardcoreMaxDist

\* the updates of loop(): bullets are updated and never filtered
HardcoreUpdate(w, dt, rnd) ==
    LET ship1  == HardcoreShipUpdate(w.ship)
        moved  == [i \in 1..Len(w.saucers) |->
                      HardcoreSaucerUpdate(w.saucers[i], dt, rnd.fire)]
        left   == {i \in 1..Len(w.saucers) : w.saucers[i].alive /\ ~moved[i].alive}
        firing == {i \in 1..Len(w.saucers) : w.saucers[i].fireTimer - dt <= 0}
        shots  == [i \in 1..Len(w.saucers) |->
                      IF i \in firing
                      THEN << NewSaucerBullet(moved[i].x, moved[i].y,
                                AimDirection(moved[i].x, moved[i].y,
                                             ship1.x, ship1.y, rnd.aim)) >>
                      ELSE << >>]
        RECURSIVE Flat(_)
        Flat(i) == IF i > Len(w.saucers) THEN << >> ELSE shots[i] \o Flat(i + 1)
        sb1    == w.saucerBullets \o Flat(1)
        sb2    == [i \in 1..Len(sb1) |-> HardcoreSaucerBulletUpdate(sb1[i])]
        stops  == {i \in 1..Len(w.saucers) : ~moved[i].alive}
        last   == IF firing \cup stops = {} THEN 0
                  ELSE CHOOSE i \in firing \cup stops : \A k \in firing \cup stops : k <= i
    IN  [w EXCEPT
           !.ship = ship1,
           !.activeThrust = IF ship1.thrusting THEN (w.activeThrust \/ buffers) ELSE FALSE,
           !.bullets = [i \in 1..Len(w.bullets) |-> HardcoreBulletUpdate(w.bullets[i])],
           !.asteroids = [i \in 1..Len(w.asteroids) |->
                             HardcoreAsteroidUpdate(w.asteroids[i])],
           !.saucers = moved,
           !.saucerBullets = SelectSeq(sb2, HardcoreSaucerBulletAlive),
           !.activeSaucerSound =
               IF last = 0 THEN w.activeSaucerSound
               ELSE IF last \in firing THEN buffers
               ELSE FALSE]

\* "--- collisions ---": bullets against asteroids, for bullets i, i - 1, .., 1
RECURSIVE HardcoreBulletCollisions(_, _, _)
HardcoreBulletCollisions(w, i, rnd) ==
    IF i < 1 THEN w
    ELSE LET b == w.bullets[i]
             HitsA(a) == distLess(b.x, b.y, a.x, a.y, a.r)
             j == LastIndex(w.asteroids, HitsA)
         IN  IF j > 0 THEN HardcoreBulletCollisions(HitAsteroid(w, i, j, rnd), i - 1, rnd)
             ELSE HardcoreBulletCollisions(w, i - 1, rnd)

\* one hit of the ship: explodeAt, lives--, gameOver, back to the centre
HardcoreShipHit(w, amount, rnd) ==
    LET w1 == explodeAt(w, w.ship.x, w.ship.y, amount, rnd)
    IN  [w1 EXCEPT !.ship = [w.ship EXCEPT !.lives = w.ship.lives - 1,
                                          !.x = Hw \div 2, !.y = Hh \div 2,
                                          !.vx = 0, !.vy = 0],
                   !.gameOver = (w.gameOver \/ w.ship.lives - 1 <= 0)]

\* "saucer bullets hit ship": every saucer bullet is tested, none is removed
RECURSIVE HardcoreSaucerBulletsVsShip(_, _, _)
HardcoreSaucerBulletsVsShip(w, i, rnd) ==
    IF i > Len(w.saucerBullets) THEN w
    ELSE LET sb == w.saucerBullets[i]
         IN  IF distLess(sb.x, sb.y, w.ship.x, w.ship.y, SHIP_R * Unit)
             THEN HardcoreSaucerBulletsVsShip(
                      HardcoreShipHit(w, HARDCORE_HIT_PARTICLES, rnd), i + 1, rnd)
             ELSE HardcoreSaucerBulletsVsShip(w, i + 1, rnd)

\* "asteroids hit ship": every asteroid is tested
RECURSIVE HardcoreAsteroidsVsShip(_, _, _)
HardcoreAsteroidsVsShip(w, i, rnd) ==
    IF i > Len(w.asteroids) THEN w
    ELSE LET a == w.asteroids[i]
         IN  IF distLess(w.ship.x, w.ship.y, a.x, a.y, SHIP_R * Unit + a.r)
             THEN HardcoreAsteroidsVsShip(
                      HardcoreShipHit(w, HARDCORE_CRASH_PARTICLES, rnd), i + 1, rnd)
             ELSE HardcoreAsteroidsVsShip(w, i + 1, rnd)

\* "saucer hit by bullet", for saucers i, i - 1, .., 1: the bullet stays
RECURSIVE HardcoreSaucersVsBullets(_, _, _)
HardcoreSaucersVsBullets(w, i, rnd) ==
    IF i < 1 THEN w
    ELSE LET sc == w.saucers[i]
             hit == \E k \in 1..Len(w.bullets) :
                       distLess(w.bullets[k].x, w.bullets[k].y, sc.x, sc.y, sc.r)
         IN  IF hit
             THEN HardcoreSaucersVsBullets(
                      [explodeAt(w, sc.x, sc.y, HARDCORE_HIT_PARTICLES, rnd) EXCEPT
                          !.score = w.score + SAUCER_SCORE,
                          !.saucers = RemoveAt(w.saucers, i),
                          !.activeSaucerSound = FALSE], i - 1, rnd)
             ELSE HardcoreSaucersVsBullets(w, i - 1, rnd)

\* "saucers = saucers.filter(s => s.alive); maybeSpawnSaucer(...)"
HardcoreSaucerCleanup(w, now, rnd) ==
    LET IsAlive(s) == s.alive
        w1 == [w EXCEPT !.saucers = SelectSeq(w.saucers, IsAlive)]
    IN  IF now >= w1.saucerNextSpawn
        THEN [w1 EXCEPT !.saucers = Append(w1.saucers, HardcoreNewSaucer(rnd.saucer)),
                        !.saucerNextSpawn = now + rnd.spawn]
        ELSE w1

\* the body of loop(now) below the tap-to-start branch
HardcoreFrame(w, now, dt, rnd) ==
    UpdateParticles(HardcoreSaucerCleanup(
        HardcoreSaucersVsBullets(
            HardcoreAsteroidsVsShip(
                HardcoreSaucerBulletsVsShip(
                    HardcoreBulletCollisions(
                        HardcoreUpdate(w, dt, rnd), Len(w.bullets), rnd),
                    1, rnd),
                1, rnd),
            Len(w.saucers), rnd),
        now, rnd))

\* loop(now) with now = lastTime + dt
HardcoreLoop(dt, rnd) ==
    /\ lastTime' = lastTime + dt
    /\ ticks' = ticks + 1
    /\ \E w \in {IF ~started THEN World ELSE HardcoreFrame(World, lastTime + dt, dt, rnd)} :
           /\ ship' = w.ship
           /\ bullets' = w.bullets
           /\ asteroids' = w.asteroids
           /\ particles' = w.particles
           /\ saucers' = w.saucers
           /\ saucerBullets' = w.saucerBullets
           /\ score' = w.score
           /\ gameOver' = w.gameOver
           /\ saucerNextSpawn' = w.saucerNextSpawn
           /\ activeThrust' = w.activeThrust
           /\ activeSaucerSound' = w.activeSaucerSound
           /\ hitLog' = w.hitLog
           /\ shipLog' = w.shipLog
           /\ emptiedAt' = IF Len(w.asteroids) = 0 /\ Len(asteroids) # 0
                           THEN lastTime + dt ELSE emptiedAt
           /\ probe' = probe
           /\ loops' = loops
    /\ UNCHANGED <<view, wave, started, waveTimers, buffers, taps, sessions, events>>

\* shoot()
HardcoreShoot ==
    /\ events' = events + 1
    /\ IF ~started \/ gameOver
       THEN UNCHANGED bullets
       ELSE bullets' = Append(bullets,
                HardcoreNewBullet(
                    ship.x + TDiv(HeadingCos(ship.a) * (SHIP_R * Unit), 1000),
                    ship.y + TDiv(HeadingSin(ship.a) * (SHIP_R * Unit), 1000),
                    ship.a))
    /\ UNCHANGED <<view, ship, asteroids, particles, saucers, saucerBullets, score,
                   wave, started, gameOver, lastTime, saucerNextSpawn, waveTimers,
                   buffers, activeThrust, activeSaucerSound, hitLog, shipLog, emptiedAt, probe, loops, taps, sessions,
                   ticks>>

\* ------------------------------------------------------------------------
\* The polished build, part_001: its world is the window, view.w x view.h.
\* A bullet carries, besides its fields, the number of times wrapX and
\* wrapY have carried it over an edge (crossedX, crossedY).
\* ------------------------------------------------------------------------
PolishedWindows == { [w |-> 800, h |-> 600, dpr |-> 1], [w |-> 390, h |-> 844, dpr |-> 3] }

\* resizeCanvas(): w = cssW, h = cssH
PolishedResizeCanvas(sz) ==
    [w |-> sz.w, h |-> sz.h, canvasW |-> sz.w * sz.dpr, canvasH |-> sz.h * sz.dpr]

PolishedWrapX(x, v) == JsMod(x + v.w * Unit, v.w * Unit)
PolishedWrapY(y, v) == JsMod(y + v.h * Unit, v.h * Unit)

\* Math.max(w, h) * BULLET_MAX_SCREEN_TRAVEL
PolishedMaxDist(v) ==
    ((IF v.w > v.h THEN v.w ELSE v.h) * Unit * POLISHED_MAX_SCREEN_TRAVEL_DECI) \div 10

\* new Bullet(x, y, a), a given as the unit vector c (times 1000)
PolishedNewBullet(x, y, c, v) ==
    [x |-> x, y |-> y,
     dx |-> TDiv(BULLET_SPEED * Unit * c[1], 1000),
     dy |-> TDiv(BULLET_SPEED * Unit * c[2], 1000),
     dist |-> 0, maxDist |-> PolishedMaxDist(v),
     crossedX |-> 0, crossedY |-> 0]

\* Bullet.update(): Math.hypot(dx, dy) is BULLET_SPEED
PolishedBulletUpdate(b, v) ==
    [b EXCEPT !.x = PolishedWrapX(b.x + b.dx, v),
              !.y = PolishedWrapY(b.y + b.dy, v),
              !.dist = b.dist + BULLET_SPEED * Unit,
              !.crossedX = IF PolishedWrapX(b.x + b.dx, v) # b.x + b.dx
                           THEN b.crossedX + 1 ELSE b.crossedX,
              !.crossedY = IF PolishedWrapY(b.y + b.dy, v) # b.y + b.dy
                           THEN b.crossedY + 1 ELSE b.crossedY]

PolishedBulletAlive(b) == b.dist < b.maxDist

\* "bullets.forEach(b => b.update()); bullets = bullets.filter(b => b.alive)"
PolishedBullets(bs, v) ==
    SelectSeq([i \in 1..Len(bs) |-> PolishedBulletUpdate(bs[i], v)], PolishedBulletAlive)

\* ------------------------------------------------------------------------
\* The fixed build, part_002: its world is the window, w x h
\* ------------------------------------------------------------------------
FixedWindow == [w |-> 320, h |-> 568, dpr |-> 2]

Fw == FixedWindow.w * Unit
Fh == FixedWindow.h * Unit

FixedWrapX(x) == JsMod(x + Fw, Fw)
FixedWrapY(y) == JsMod(y + Fh, Fh)

FixedNewShip ==
    [x |-> Fw \div 2, y |-> Fh \div 2, a |-> 0, rot |-> 0,
     vx |-> 0, vy |-> 0, thrusting |-> FALSE, lives |-> START_LIVES, invuln |-> 0]

FixedShipUpdate(s) ==
    LET a2  == s.a + s.rot
        vx1 == IF s.thrusting
               THEN s.vx + TDiv(((THRUST_CENTI * Unit) \div 100) * HeadingCos(a2), 1000)
               ELSE s.vx
        vy1 == IF s.thrusting
               THEN s.vy + TDiv(((THRUST_CENTI * Unit) \div 100) * HeadingSin(a2), 1000)
               ELSE s.vy
        vx2 == TDiv(vx1 * DRAG_MILLI, 1000)
        vy2 == TDiv(vy1 * DRAG_MILLI, 1000)
    IN  [s EXCEPT !.a = a2, !.vx = vx2, !.vy = vy2,
                  !.x = FixedWrapX(s.x + vx2), !.y = FixedWrapY(s.y + vy2),
                  !.invuln = IF s.invuln > 0 THEN s.invuln - 1 ELSE s.invuln]

\* Math.max(w, h) * BULLET_MAX_SCREEN_TRAVEL
FixedMaxDist ==
    ((IF Fw > Fh THEN Fw ELSE Fh) * FIXED_MAX_SCREEN_TRAVEL_DECI) \div 10

\* new Bullet(x, y, a), a the ship heading after h turns
FixedNewBullet(x, y, h) ==
    [x |-> x, y |-> y,
     dx |-> TDiv(BULLET_SPEED * Unit * HeadingCos(h), 1000),
     dy |-> TDiv(BULLET_SPEED * Unit * HeadingSin(h), 1000),
     dist |-> 0]

\* Bullet.update(): Math.hypot(dx, dy) is BULLET_SPEED
FixedBulletUpdate(b) ==
    [b EXCEPT !.x = FixedWrapX(b.x + b.dx), !.y = FixedWrapY(b.y + b.dy),
              !.dist = b.dist + BULLET_SPEED * Unit]

\* "get alive()" of Bullet and of SaucerBullet
FixedBulletAlive(b) == b.dist < FixedMaxDist

FixedAsteroidUpdate(a) ==
    [a EXCEPT !.x = FixedWrapX(a.x + a.dx), !.y = FixedWrapY(a.y + a.dy)]

FixedNewSaucer(d) ==
    [side |-> d.side,
     x |-> IF d.side < 0 THEN -(SAUCER_START * Unit) ELSE Fw + SAUCER_START * Unit,
     y |-> d.y,
     speed |-> IF d.side < 0 THEN d.speed ELSE -d.speed,
     r |-> SAUCER_R * Unit, fireTimer |-> d.fireTimer, alive |-> TRUE]

FixedSaucerBulletUpdate(b) ==
    [b EXCEPT !.x = FixedWrapX(b.x + b.dx), !.y = FixedWrapY(b.y + b.dy),
              !.dist = b.dist + SaucerBulletSpeed]

\* stopActiveSaucerSound()
stopActiveSaucerSound(w) == [w EXCEPT !.activeSaucerSound = FALSE]

\* Saucer.update(dt) of saucer i, the draw of the next fireTimer being
\* rnd.fire and that of the inaccuracy rnd.aim: the saucer moves, is marked
\* dead beyond the margin (which stops the tracked sound), and fires when
\* its timer has run out, dead or not
FixedSaucerUpdate(w, i, dt, rnd) ==
    LET s     == w.saucers[i]
        x2    == s.x + s.speed * dt
        gone  == \/ (s.side < 0 /\ x2 > Fw + SAUCER_MARGIN * Unit)
                 \/ (s.side > 0 /\ x2 < -(SAUCER_MARGIN * Unit))
        alive == IF gone THEN FALSE ELSE s.alive
        fires == s.fireTimer - dt <= 0
        w1    == IF alive THEN w ELSE stopActiveSaucerSound(w)
        s2    == [s EXCEPT !.x = x2, !.alive = alive,
                           !.fireTimer = IF fires THEN rnd.fire ELSE s.fireTimer - dt]
    IN  IF fires
        THEN [w1 EXCEPT
                !.saucers = [w.saucers EXCEPT ![i] = s2],
                !.saucerBullets = Append(w.saucerBullets,
                    NewSaucerBullet(x2, s.y,
                        AimDirection(x2, s.y, w.ship.x, w.ship.y, rnd.aim))),
                !.activeSaucerSound = buffers]
        ELSE [w1 EXCEPT !.saucers = [w.saucers EXCEPT ![i] = s2]]

\* "saucers.forEach(s => s.update(dt))", saucers i, i + 1, ..
RECURSIVE FixedSaucersUpdate(_, _, _, _)
FixedSaucersUpdate(w, i, dt, rnd) ==
    IF i > Len(w.saucers) THEN w
    ELSE FixedSaucersUpdate(FixedSaucerUpdate(w, i, dt, rnd), i + 1, dt, rnd)

\* "Updates": ship, bullets (and filter), asteroids, saucers, saucer bullets
\* (and filter)
FixedUpdate(w, dt, rnd) ==
    LET ship1 == FixedShipUpdate(w.ship)
        w1 == [w EXCEPT
                 !.ship = ship1,
                 !.activeThrust = IF ship1.thrusting THEN (w.activeThrust \/ buffers)
                                  ELSE FALSE,
                 !.bullets = SelectSeq([i \in 1..Len(w.bullets) |->
                                           FixedBulletUpdate(w.bullets[i])],
                                       FixedBulletAlive),
                 !.asteroids = [i \in 1..Len(w.asteroids) |->
                                   FixedAsteroidUpdate(w.asteroids[i])]]
        w2 == FixedSaucersUpdate(w1, 1, dt, rnd)
    IN  [w2 EXCEPT !.saucerBullets =
            SelectSeq([i \in 1..Len(w2.saucerBullets) |->
                          FixedSaucerBulletUpdate(w2.saucerBullets[i])],
                      FixedBulletAlive)]

\* bullet i destroys saucer k: explodeAt, score, both removed, sound stopped
FixedHitSaucer(w, i, k, rnd) ==
    LET sc == w.saucers[k]
        w1 == explodeAt(w, sc.x, sc.y, FIXED_HIT_PARTICLES, rnd)
        w2 == stopActiveSaucerSound(
                  [w1 EXCEPT !.score = w.score + SAUCER_SCORE,
                             !.bullets = RemoveAt(w.bullets, i),
                             !.saucers = RemoveAt(w.saucers, k)])
    IN  [w2 EXCEPT !.hitLog = Append(w.hitLog,
             [kind |-> "saucer", target |-> sc, bullet |-> w.bullets[i],
              before |-> [bullets |-> w.bullets, asteroids |-> w.asteroids,
                          saucers |-> w.saucers, score |-> w.score],
              after  |-> [bullets |-> w2.bullets, asteroids |-> w2.asteroids,
                          saucers |-> w2.saucers, score |-> w2.score]])]

\* "Collisions: bullets -> asteroids & saucers", bullets i, i - 1, .., 1
RECURSIVE FixedBulletCollisions(_, _, _)
FixedBulletCollisions(w, i, rnd) ==
    IF i < 1 THEN w
    ELSE LET b == w.bullets[i]
             HitsA(a) == distLess(b.x, b.y, a.x, a.y, a.r)
             HitsS(sc) == distLess(b.x, b.y, sc.x, sc.y, sc.r)
             j == LastIndex(w.asteroids, HitsA)
             k == LastIndex(w.saucers, HitsS)
         IN  IF j > 0 THEN FixedBulletCollisions(HitAsteroid(w, i, j, rnd), i - 1, rnd)
             ELSE IF k > 0 THEN FixedBulletCollisions(FixedHitSaucer(w, i, k, rnd), i - 1, rnd)
             ELSE FixedBulletCollisions(w, i - 1, rnd)

\* the ship loses a life: explodeAt, lives--, back to the centre, invuln
FixedShipHit(w, amount, rnd) ==
    LET w1 == explodeAt(w, w.ship.x, w.ship.y, amount, rnd)
    IN  [w1 EXCEPT !.ship = [w.ship EXCEPT !.lives = w.ship.lives - 1,
                                          !.x = Fw \div 2, !.y = Fh \div 2,
                                          !.vx = 0, !.vy = 0,
                                          !.invuln = FIXED_INVULN],
                   !.gameOver = (w.gameOver \/ w.ship.lives - 1 <= 0)]

\* "Saucer bullets -> ship"
FixedSaucerBulletsVsShip(w, rnd) ==
    LET HitsShip(sb) == distLess(sb.x, sb.y, w.ship.x, w.ship.y, SHIP_R * Unit)
        i == LastIndex(w.saucerBullets, HitsShip)
    IN  IF w.ship.invuln <= 0 /\ i > 0
        THEN [FixedShipHit(w, FIXED_HIT_PARTICLES, rnd) EXCEPT
                 !.saucerBullets = RemoveAt(w.saucerBullets, i)]
        ELSE w

\* "Ship <-> asteroids"
FixedShipVsAsteroids(w, rnd) ==
    LET HitsShip(a) == distLess(w.ship.x, w.ship.y, a.x, a.y, SHIP_R * Unit + a.r)
        i == LastIndex(w.asteroids, HitsShip)
    IN  IF w.ship.invuln <= 0 /\ i > 0
        THEN FixedShipHit(w, FIXED_CRASH_PARTICLES, rnd)
        ELSE w

\* "Remove expired saucers", "Spawn saucer occasionally"
FixedSaucerCleanup(w, now, rnd) ==
    LET IsAlive(s) == s.alive
        w1 == [w EXCEPT !.saucers = SelectSeq(w.saucers, IsAlive)]
    IN  IF now >= w1.saucerNextSpawn
        THEN [w1 EXCEPT !.saucers = Append(w1.saucers, FixedNewSaucer(rnd.saucer)),
                        !.saucerNextSpawn = now + rnd.spawn]
        ELSE w1

\* the body of loop(now) below the tap-to-start overlay
FixedFrame(w, now, dt, rnd) ==
    GameOverBlock(ScheduleWaveReset(UpdateParticles(
        FixedSaucerCleanup(
            FixedShipVsAsteroids(
                FixedSaucerBulletsVsShip(
                    FixedBulletCollisions(
                        FixedUpdate(w, dt, rnd),
                        Len(FixedUpdate(w, dt, rnd).bullets), rnd),
                    rnd),
                rnd),
            now, rnd)), now))

\* loop(now) with now = lastTime + dt
FixedLoop(dt, rnd) ==
    /\ lastTime' = lastTime + dt
    /\ ticks' = ticks + 1
    /\ \E w \in {IF ~started THEN World ELSE FixedFrame(World, lastTime + dt, dt, rnd)} :
           /\ ship' = w.ship
           /\ bullets' = w.bullets
           /\ asteroids' = w.asteroids
           /\ particles' = w.particles
           /\ saucers' = w.saucers
           /\ saucerBullets' = w.saucerBullets
           /\ score' = w.score
           /\ gameOver' = w.gameOver
           /\ saucerNextSpawn' = w.saucerNextSpawn
           /\ waveTimers' = w.waveTimers
           /\ activeThrust' = w.activeThrust
           /\ activeSaucerSound' = w.activeSaucerSound
           /\ hitLog' = w.hitLog
           /\ shipLog' = w.shipLog
           /\ emptiedAt' = IF Len(w.asteroids) = 0 /\ Len(asteroids) # 0
                           THEN lastTime + dt ELSE emptiedAt
           /\ probe' = probe
           /\ loops' = loops
    /\ UNCHANGED <<view, wave, started, buffers, taps, sessions, events>>

\* shoot()
FixedShoot ==
    /\ events' = events + 1
    /\ IF ~started \/ gameOver
       THEN UNCHANGED bullets
       ELSE bullets' = Append(bullets,
                FixedNewBullet(
                    ship.x + TDiv(HeadingCos(ship.a) * (SHIP_R * Unit), 1000),
                    ship.y + TDiv(HeadingSin(ship.a) * (SHIP_R * Unit), 1000),
                    ship.a))
    /\ UNCHANGED <<view, ship, asteroids, particles, saucers, saucerBullets, score,
                   wave, started, gameOver, lastTime, saucerNextSpawn, waveTimers,
                   buffers, activeThrust, activeSaucerSound, hitLog, shipLog, emptiedAt, probe, loops, taps, sessions,
                   ticks>>

\* ------------------------------------------------------------------------
\* Specifications
\* ------------------------------------------------------------------------
\* Spec: every handler, for a few frames; a frame may follow a pause of the
\* page, which is what lets a saucer arrive and close in within few frames.
Init == InitWith(Layouts, {Frames(SAUCER_SPAWN_MIN)}, BOOLEAN)

Tick == ticks < MaxTicks /\ \E dt \in DtChoices : \E rnd \in Rnd : Loop(dt, rnd)

Tap ==
    taps < MaxTaps /\ \E layout \in Layouts : CanvasTap(layout, Frames(SAUCER_SPAWN_MIN))

Fire == events < MaxEvents /\ Shoot

Turn == events < MaxEvents /\ \E r \in {-1, 0, 1} : SetRot(r)

Thrust == events < MaxEvents /\ \E b \in BOOLEAN : SetThrust(b)

Resize == \E sz \in Screens : ResizeCanvas(sz)

Next == Tick \/ Tap \/ Fire \/ Turn \/ Thrust \/ Resize

Spec == Init /\ [][Next]_vars

\* SpecLong: whole sessions, frame by frame, with taps and a shot.
InitLong == InitWith(LongLayouts, {Frames(SAUCER_SPAWN_MIN)}, {TRUE})

LongTick ==
    /\ ticks < MaxLongTicks
    /\ started \/ ticks < MaxIdleTicks
    /\ \E rnd \in RndLong : Loop(1, rnd)

LongTap ==
    taps < MaxTaps /\ \E layout \in LongLayouts : CanvasTap(layout, Frames(SAUCER_SPAWN_MIN))

LongFire == events < MaxLongEvents /\ Shoot

NextLong == LongTick \/ LongTap \/ LongFire

SpecLong == InitLong /\ [][NextLong]_vars

\* SpecWave: a session in which the fire button is held, so that shoot() runs
\* every 200 ms, until the asteroids are gone and the wave timer has brought
\* the next wave.  A shot that is due is fired before the next frame.
InitWave == InitWith({LayoutGallery}, {Frames(SAUCER_SPAWN_MIN)}, {TRUE})

ShotDue == events * Frames(AUTOFIRE_MS) <= lastTime

\* the next frame may run
FrameDue ==
    /\ ticks < MaxWaveTicks
    /\ started \/ ticks < MaxIdleTicks
    /\ ~ShotDue

WaveTick == FrameDue /\ \E rnd \in RndWave : Loop(1, rnd)

WaveTap == taps < MaxTaps /\ CanvasTap(LayoutGallery, Frames(SAUCER_SPAWN_MIN))

WaveFire == ShotDue /\ Shoot

WaveTimer == WaveTimerFire(LayoutGallery)

NextWave == WaveTick \/ WaveTap \/ WaveFire \/ WaveTimer

SpecWave == InitWave /\ [][NextWave]_vars

\* the timer callbacks keep being served: a callback that is due runs
SpecWaveLive == SpecWave /\ WF_vars(WaveTimer)

\* SpecBurst: the gallery under key repeat, a shot (keydown of z) every
\* KeyRepeatFrames frames from the start on; a timer callback that is due
\* runs before the next frame.
BurstShotDue == started /\ events * KeyRepeatFrames <= lastTime

BurstTick ==
    /\ ticks < MaxBurstTicks
    /\ started \/ ticks < MaxIdleTicks
    /\ ~BurstShotDue
    /\ ~(\E t \in waveTimers : t <= lastTime)
    /\ \E rnd \in RndWave : Loop(1, rnd)

BurstTap == taps < MaxTaps /\ CanvasTap(LayoutGallery, Frames(SAUCER_SPAWN_MIN))

BurstFire == BurstShotDue /\ ticks < MaxBurstTicks /\ Shoot

BurstTimer ==
    /\ wave < MaxBurstWave \/ Len(asteroids) # 0
    /\ WaveTimerFire(LayoutGallery)

NextBurst == BurstTick \/ BurstTap \/ BurstFire \/ BurstTimer

SpecBurst == InitWave /\ [][NextBurst]_vars

\* SpecWrap: wrapX and wrapY, each applied once to a coordinate on or next to
\* a quarter of the world extent, from below -extent to above 2 * extent.
WrapInputs ==
    {k * (VWu \div 4) + j : k \in -MaxWrapSpan..MaxWrapSpan, j \in {-1, 0, 1}}

\* the collections, counters and sound state init() leaves, the asteroids
\* drawn as LayoutGallery
Quiet ==
    /\ bullets = << >>
    /\ asteroids = resetAsteroids(1, LayoutGallery)
    /\ particles = << >>
    /\ saucers = << >>
    /\ saucerBullets = << >>
    /\ score = 0
    /\ wave = 1
    /\ gameOver = FALSE
    /\ lastTime = 0
    /\ saucerNextSpawn = Frames(SAUCER_SPAWN_MIN)
    /\ waveTimers = {}
    /\ buffers = FALSE
    /\ activeThrust = FALSE
    /\ activeSaucerSound = FALSE
    /\ hitLog = << >>
    /\ shipLog = << >>
    /\ emptiedAt = 0
    /\ loops = 0
    /\ ticks = 0
    /\ events = 0
    /\ view = resizeCanvas(InitialScreen)

InitWrap ==
    /\ \E c \in WrapInputs : probe = [axis |-> "none", c |-> c, r |-> c]
    /\ ship = NewShip
    /\ started = FALSE
    /\ taps = 0
    /\ sessions = 0
    /\ Quiet

\* everything but probe
game ==
    <<ship, bullets, asteroids, particles, saucers, saucerBullets,
      score, wave, started, gameOver, lastTime, saucerNextSpawn, waveTimers,
      buffers, activeThrust, activeSaucerSound, hitLog, shipLog, emptiedAt,
      loops, taps, sessions, ticks, events, view>>

CallWrapX ==
    /\ probe.axis = "none"
    /\ probe' = [probe EXCEPT !.axis = "x", !.r = wrapX(probe.c)]
    /\ UNCHANGED game

CallWrapY ==
    /\ probe.axis = "none"
    /\ probe' = [probe EXCEPT !.axis = "y", !.r = wrapY(probe.c)]
    /\ UNCHANGED game

NextWrap == CallWrapX \/ CallWrapY

SpecWrap == InitWrap /\ [][NextWrap]_vars

\* SpecCoast: a started game whose ship coasts to the left, thrust off, a
\* few pixels from the left edge of the world.
CoastShips ==
    {[NewShip EXCEPT !.x = Px(x), !.y = Px(300), !.vx = -Px(v)] :
        x \in 5..14, v \in 2..5}

InitCoast ==
    /\ ship \in CoastShips
    /\ started = TRUE
    /\ taps = 1
    /\ sessions = 1
    /\ probe = NoProbe
    /\ loops = 0
    /\ Quiet

CoastTick == ticks < MaxCoastTicks /\ \E rnd \in RndWave : Loop(1, rnd)

NextCoast == CoastTick

SpecCoast == InitCoast /\ [][NextCoast]_vars

\* SpecSplit: the largest asteroids under key repeat, as SpecBurst.
InitSplit == InitWith({LayoutBoulders}, {Frames(SAUCER_SPAWN_MIN)}, {TRUE})

SplitTick ==
    /\ ticks < MaxSplitTicks
    /\ started \/ ticks < MaxIdleTicks
    /\ ~BurstShotDue
    /\ ~(\E t \in waveTimers : t <= lastTime)
    /\ \E rnd \in RndWave : Loop(1, rnd)

SplitTap == taps < MaxTaps /\ CanvasTap(LayoutBoulders, Frames(SAUCER_SPAWN_MIN))

SplitFire == BurstShotDue /\ ticks < MaxSplitTicks /\ Shoot

SplitTimer ==
    /\ wave < MaxSplitWave \/ Len(asteroids) # 0
    /\ WaveTimerFire(LayoutBoulders)

NextSplit == SplitTick \/ SplitTap \/ SplitFire \/ SplitTimer

SpecSplit == InitSplit /\ [][NextSplit]_vars

\* SpecCross: saucers crossing the world, the slowest and the fastest the
\* constructor draws, from either side; frames come 100 or 400 frame times
\* apart (a page that is shown now and then) and keep coming while a saucer
\* is in the world.
CrossDraws ==
    { [side |-> -1, y |-> Px(600), speed |-> 120, fireTimer |-> Frames(FIRE_MIN_MS)],
      [side |-> 1, y |-> Px(300), speed |-> 199, fireTimer |-> Frames(FIRE_MAX_MS) - 1] }

RndCross ==
    [kids   : { << <<0, 100>>, <<0, -170>> >> },
     part   : { [vx |-> 100, vy |-> -50, life |-> 20] },
     piece  : { [speed |-> 200, life |-> 30] },
     fire   : { Frames(FIRE_MIN_MS) },
     aim    : { 0 },
     saucer : CrossDraws,
     spawn  : { Frames(SAUCER_SPAWN_MIN) }]

CrossDts == {Frames(SAUCER_SPAWN_MIN) \div 24, Frames(SAUCER_SPAWN_MIN) \div 6}

InitCross == InitWith({LayoutTargets}, {Frames(SAUCER_SPAWN_MIN)}, BOOLEAN)

CrossTick ==
    /\ ticks < MaxCrossTicks \/ Len(saucers) > 0
    /\ \E dt \in CrossDts : \E rnd \in RndCross : Loop(dt, rnd)

CrossTap == taps < MaxTaps /\ CanvasTap(LayoutTargets, Frames(SAUCER_SPAWN_MIN))

NextCross == CrossTick \/ CrossTap

SpecCross == InitCross /\ [][NextCross]_vars

\* a step of CrossTick as far as ticks shows it: ticks changes in no other
\* step of SpecCross, and loop() itself has no early return for a ship that
\* is not turning
CrossFrame == (ticks < MaxCrossTicks \/ Len(saucers) > 0) /\ ticks' = ticks + 1

\* requestAnimationFrame(loop) is called at the end of every loop(): frames
\* keep coming
SpecCrossLive == SpecCross /\ WF_ticks(CrossFrame)

\* SpecSiren: a session with a saucer in it from the first frames on.  The
\* page is hidden right after the start tap, so that the first frame of the
\* session is SAUCER_SPAWN_MIN long and ends with a saucer; it may be hidden
\* once more right after that, and again while the game is over.  The ship
\* is wrecked by the asteroids that drift into it, with the saucer still in
\* the world, and the player starts over.
SirenDraws ==
    { [side |-> -1, y |-> Px(600), speed |-> 160, fireTimer |-> Frames(FIRE_MAX_MS) - 1],
      [side |-> 1, y |-> Px(300), speed |-> 199, fireTimer |-> Frames(FIRE_MAX_MS) - 1] }

RndSiren ==
    [kids   : { << <<0, 100>>, <<0, -170>> >> },
     part   : { [vx |-> 100, vy |-> -50, life |-> 20] },
     piece  : { [speed |-> 200, life |-> 30] },
     fire   : { Frames(FIRE_MAX_MS) - 1 },
     aim    : { 0 },
     saucer : SirenDraws,
     spawn  : { Frames(SAUCER_SPAWN_MIN) }]

\* the frame times of SpecSiren
SirenDts ==
    {1} \cup (IF started /\ lastTime <= MaxIdleTicks
              THEN {Frames(SAUCER_SPAWN_MIN)} ELSE {})
        \cup (IF \E i \in 1..Len(saucers) :
                     saucers[i].x \in {-(SAUCER_START * Unit), VWu + SAUCER_START * Unit}
              THEN {Frames(SAUCER_SPAWN_MIN) \div 12} ELSE {})
        \cup (IF gameOver /\ Len(saucers) > 0
              THEN {Frames(SAUCER_SPAWN_MIN) \div 3} ELSE {})

InitSiren == InitWith(LongLayouts, {Frames(SAUCER_SPAWN_MIN)}, BOOLEAN)

SirenTick ==
    /\ ticks < MaxSirenTicks
    /\ started \/ ticks < MaxIdleTicks
    /\ \E dt \in SirenDts : \E rnd \in RndSiren : Loop(dt, rnd)

SirenTap ==
    /\ taps < MaxTaps
    /\ ~started \/ gameOver
    /\ \E layout \in LongLayouts : CanvasTap(layout, Frames(SAUCER_SPAWN_MIN))

\* the player shoots at a saucer that is about to cross the line of fire
SirenFire ==
    /\ events < MaxSirenShots
    /\ \E i \in 1..Len(saucers) :
           saucers[i].side * (saucers[i].x - ship.x) \in Px(80)..Px(100)
    /\ Shoot

NextSiren == SirenTick \/ SirenTap \/ SirenFire

SpecSiren == InitSiren /\ [][NextSiren]_vars

\* SpecHardcore: the hardcore build, started, with a shot at any moment.
\* The asteroids of HardcoreLayout stay clear of the ship and of the column
\* the bullet flies in, but for one that crosses the column around tick 205.
HardcoreLayout ==
    << NewAsteroid(Px(100), Px(100), Px(30), <<100, 0>>),
       NewAsteroid(Px(700), Px(100), Px(30), <<0, 100>>),
       NewAsteroid(Px(100), Px(500), Px(30), <<100, 0>>),
       NewAsteroid(Px(700), Px(500), Px(30), <<0, -100>>),
       NewAsteroid(Px(72), Px(250), Px(30), <<160, 0>>) >>

RndHardcore ==
    [kids   : { << <<100, 0>>, <<-100, 0>> >> },
     part   : { [vx |-> 100, vy |-> -50, life |-> 18] },
     piece  : { [speed |-> 200, life |-> 30] },
     fire   : { Frames(FIRE_MIN_MS) },
     aim    : { 0 },
     saucer : { [side |-> -1, y |-> Px(300), speed |-> 160,
                 fireTimer |-> Frames(FIRE_MIN_MS)] },
     spawn  : { Frames(HARDCORE_SAUCER_SPAWN_MIN) }]

InitHardcore ==
    /\ ship = HardcoreNewShip
    /\ bullets = << >>
    /\ asteroids = HardcoreLayout
    /\ particles = << >>
    /\ saucers = << >>
    /\ saucerBullets = << >>
    /\ score = 0
    /\ wave = 1
    /\ started = TRUE
    /\ gameOver = FALSE
    /\ lastTime = 0
    /\ saucerNextSpawn = Frames(HARDCORE_SAUCER_SPAWN_MIN)
    /\ waveTimers = {}
    /\ buffers = TRUE
    /\ activeThrust = FALSE
    /\ activeSaucerSound = FALSE
    /\ hitLog = << >>
    /\ shipLog = << >>
    /\ emptiedAt = 0
    /\ probe = NoProbe
    /\ loops = 0
    /\ taps = 1
    /\ sessions = 1
    /\ ticks = 0
    /\ events = 0
    /\ view = [w |-> HardcoreWindow.w, h |-> HardcoreWindow.h,
               canvasW |-> HardcoreWindow.w * HardcoreWindow.dpr,
               canvasH |-> HardcoreWindow.h * HardcoreWindow.dpr]

HardcoreTick ==
    ticks < MaxHardcoreTicks /\ \E rnd \in RndHardcore : HardcoreLoop(1, rnd)

HardcoreFire == events < MaxHardcoreShots /\ HardcoreShoot

NextHardcore == HardcoreTick \/ HardcoreFire

SpecHardcore == InitHardcore /\ [][NextHardcore]_vars

\* SpecFixed: the fixed build, started, with a saucer that has just come in
\* from the left (as after spawnSaucerNow()), and a shot at any moment. The
\* saucer crosses the window in 243 frames; its first fireTimer is drawn so
\* that it runs out in frame 243 or so that it does not.
FixedLayout ==
    << NewAsteroid(Px(40), Px(40), Px(30), <<20, 0>>),
       NewAsteroid(Px(280), Px(40), Px(30), <<-20, 0>>),
       NewAsteroid(Px(40), Px(500), Px(30), <<0, 20>>),
       NewAsteroid(Px(280), Px(500), Px(30), <<0, -20>>),
       NewAsteroid(Px(280), Px(150), Px(30), <<0, 20>>) >>

FixedSaucerDraws ==
    { [side |-> -1, y |-> Px(100), speed |-> 190, fireTimer |-> t] :
        t \in {Frames(FIRE_MIN_MS), 63} }

RndFixed ==
    [kids   : { << <<100, 0>>, <<-100, 0>> >> },
     part   : { [vx |-> 100, vy |-> -50, life |-> 20] },
     piece  : { [speed |-> 200, life |-> 30] },
     fire   : { Frames(FIRE_MIN_MS) },
     aim    : { 0 },
     saucer : FixedSaucerDraws,
     spawn  : { Frames(FIXED_SAUCER_SPAWN_MIN) }]

InitFixed ==
    /\ ship = FixedNewShip
    /\ bullets = << >>
    /\ asteroids = FixedLayout
    /\ particles = << >>
    /\ \E d \in FixedSaucerDraws : saucers = << FixedNewSaucer(d) >>
    /\ saucerBullets = << >>
    /\ score = 0
    /\ wave = 1
    /\ started = TRUE
    /\ gameOver = FALSE
    /\ lastTime = 0
    /\ saucerNextSpawn = Frames(FIXED_SAUCER_SPAWN_MIN)
    /\ waveTimers = {}
    /\ buffers \in BOOLEAN
    /\ activeThrust = FALSE
    /\ activeSaucerSound = FALSE
    /\ hitLog = << >>
    /\ shipLog = << >>
    /\ emptiedAt = 0
    /\ probe = NoProbe
    /\ loops = 0
    /\ taps = 1
    /\ sessions = 1
    /\ ticks = 0
    /\ events = 0
    /\ view = [w |-> FixedWindow.w, h |-> FixedWindow.h,
               canvasW |-> FixedWindow.w * FixedWindow.dpr,
               canvasH |-> FixedWindow.h * FixedWindow.dpr]

FixedTick == ticks < MaxFixedTicks /\ \E rnd \in RndFixed : FixedLoop(1, rnd)

FixedFire == events < MaxFixedShots /\ FixedShoot

NextFixed == FixedTick \/ FixedFire

SpecFixed == InitFixed /\ [][NextFixed]_vars

\* the headings of a shot: the 16 compass directions and four in between
Headings ==
    {Compass[k] : k \in 1..16}
        \cup {<<800, 600>>, <<600, -800>>, <<-800, -600>>, <<-600, 800>>}

\* SpecPolished: the flight of one ship bullet of the polished build, shot
\* from the nose of the ship at the centre of the window, in any heading.
InitPolished ==
    /\ \E sz \in PolishedWindows : view = PolishedResizeCanvas(sz)
    /\ ship = [NewShip EXCEPT !.x = (view.w * Unit) \div 2, !.y = (view.h * Unit) \div 2]
    /\ \E c \in Headings :
          bullets = << PolishedNewBullet(ship.x + TDiv(c[1] * (SHIP_R * Unit), 1000),
                                         ship.y + TDiv(c[2] * (SHIP_R * Unit), 1000),
                                         c, view) >>
    /\ asteroids = << >>
    /\ particles = << >>
    /\ saucers = << >>
    /\ saucerBullets = << >>
    /\ score = 0
    /\ wave = 1
    /\ started = TRUE
    /\ gameOver = FALSE
    /\ lastTime = 0
    /\ saucerNextSpawn = Frames(SAUCER_SPAWN_MIN)
    /\ waveTimers = {}
    /\ buffers = TRUE
    /\ activeThrust = FALSE
    /\ activeSaucerSound = FALSE
    /\ hitLog = << >>
    /\ shipLog = << >>
    /\ emptiedAt = 0
    /\ probe = NoProbe
    /\ loops = 0
    /\ taps = 1
    /\ sessions = 1
    /\ ticks = 0
    /\ events = 1

PolishedStep ==
    /\ ticks < MaxPolishedTicks
    /\ ticks' = ticks + 1
    /\ lastTime' = lastTime + 1
    /\ bullets' = PolishedBullets(bullets, view)
    /\ UNCHANGED <<view, ship, asteroids, particles, saucers, saucerBullets, score, wave,
                   started, gameOver, saucerNextSpawn, waveTimers, buffers, activeThrust,
                   activeSaucerSound, hitLog, shipLog, emptiedAt, probe, loops, taps, sessions, events>>

NextPolished == PolishedStep

SpecPolished == InitPolished /\ [][NextPolished]_vars

\* SpecFlight: the flight of one ship bullet and one saucer bullet, from
\* their construction on, along every heading of Headings: the update and
\* filter step of loop() applied frame after frame.
InitFlight ==
    /\ ship = NewShip
    /\ \E c \in Headings :
          bullets = << BulletAlong(ship.x + TDiv(c[1] * (SHIP_R * Unit), 1000),
                                   ship.y + TDiv(c[2] * (SHIP_R * Unit), 1000), c) >>
    /\ asteroids = resetAsteroids(1, LayoutTargets)
    /\ particles = << >>
    /\ saucers = << >>
    /\ \E k \in 1..16 :
          saucerBullets = << NewSaucerBullet(Px(100), Px(300), Compass[k]) >>
    /\ score = 0
    /\ wave = 1
    /\ started = TRUE
    /\ gameOver = FALSE
    /\ lastTime = 0
    /\ saucerNextSpawn = Frames(SAUCER_SPAWN_MIN)
    /\ waveTimers = {}
    /\ buffers = TRUE
    /\ activeThrust = FALSE
    /\ activeSaucerSound = FALSE
    /\ hitLog = << >>
    /\ shipLog = << >>
    /\ emptiedAt = 0
    /\ probe = NoProbe
    /\ loops = 0
    /\ taps = 1
    /\ sessions = 1
    /\ ticks = 0
    /\ events = 0
    /\ view = resizeCanvas(InitialScreen)

\* "UPDATE ENTITIES" of one frame
FlightStep ==
    /\ ticks < MaxFlightTicks
    /\ ticks' = ticks + 1
    /\ lastTime' = lastTime + 1
    /\ \E rnd \in RndLong : \E w \in {UpdateEntities(World, 1, rnd)} :
          /\ ship' = w.ship
          /\ bullets' = w.bullets
          /\ asteroids' = w.asteroids
          /\ saucers' = w.saucers
          /\ saucerBullets' = w.saucerBullets
          /\ activeThrust' = w.activeThrust
          /\ activeSaucerSound' = w.activeSaucerSound
          /\ loops' = w.loops
    /\ UNCHANGED <<view, particles, score, wave, started, gameOver, saucerNextSpawn,
                   waveTimers, buffers, hitLog, shipLog, emptiedAt, probe, taps, sessions, events>>

NextFlight == FlightStep

SpecFlight == InitFlight /\ [][NextFlight]_vars


\* ------------------------------------------------------------------------
\* Properties
\* ------------------------------------------------------------------------
IsTick == ticks' = ticks + 1
IsTap == taps' = taps + 1

Centre == [x |-> VWu \div 2, y |-> VHu \div 2]

\* an asteroid overlaps the ship
ShipOverlapsAsteroid ==
    \E i \in 1..Len(asteroids) :
        distLess(ship.x, ship.y, asteroids[i].x, asteroids[i].y,
                 SHIP_R * Unit + asteroids[i].r)

\* C1: ship.lives is never negative, and it is 0 only when the game is over.
C1_LivesNeverNegative ==
    started => (ship.lives >= 0 /\ (ship.lives = 0 => gameOver))

\* C2: once the game is over, no tick takes a life or opens a new
\* invulnerability window: no damage is processed in GAME_OVER.
C2_NoDamageWhileGameOver ==
    [][(started /\ gameOver /\ IsTick)
         => (ship'.lives = ship.lives /\ ship'.invuln <= ship.invuln)]_vars

\* C3: while the game is over, a tick leaves the ship's position, the four
\* collections, the score and the wave as they are.
C3_GameOverHaltsUpdates ==
    [][(started /\ gameOver /\ IsTick)
         => /\ ship'.x = ship.x /\ ship'.y = ship.y
            /\ bullets' = bullets
            /\ asteroids' = asteroids
            /\ saucers' = saucers
            /\ saucerBullets' = saucerBullets
            /\ score' = score
            /\ wave' = wave]_vars

InRange(e) == 0 <= e.x /\ e.x < VWu /\ 0 <= e.y /\ e.y < VHu

AllInRange(s) == \A i \in 1..Len(s) : InRange(s[i])

\* within SPLIT_OFFSET of the world: where a split child may lie until its
\* first update
NearRange(e) ==
    /\ -(SPLIT_OFFSET * Unit) <= e.x /\ e.x < VWu + SPLIT_OFFSET * Unit
    /\ -(SPLIT_OFFSET * Unit) <= e.y /\ e.y < VHu + SPLIT_OFFSET * Unit

EveryEntityInRange ==
    /\ InRange(ship)
    /\ AllInRange(bullets)
    /\ AllInRange(asteroids)
    /\ AllInRange(saucers)
    /\ AllInRange(saucerBullets)
    /\ AllInRange(particles)

WrappedEntitiesInRange ==
    /\ InRange(ship)
    /\ AllInRange(bullets)
    /\ AllInRange(saucerBullets)
    /\ \A i \in 1..Len(asteroids) : NearRange(asteroids[i])

\* C4 as stated: at the end of every tick executed while started, every
\* entity of every kind has 0 <= x < VW and 0 <= y < VH.
C4_EveryEntityInRange ==
    [][(started /\ IsTick) => EveryEntityInRange']_vars

\* C4: at the end of every tick executed while started, the ship, every
\* bullet and every saucer bullet has 0 <= x < VW and 0 <= y < VH, and every
\* asteroid lies within 4 px of that range (a split child is placed 4 px off
\* its parent and is wrapped by its first update); saucers and particles are
\* never wrapped.
C4_WrappedEntitiesInRange ==
    [][(started /\ IsTick) => WrappedEntitiesInRange']_vars

\* a tick has carried an asteroid across the left edge and a bullet is in
\* flight
C4_Wrapped ==
    /\ started /\ ticks > 0
    /\ bullets # << >>
    /\ \E i \in 1..Len(asteroids) : asteroids[i].x >= VWu - 2 * Unit

\* C5: the only phase transitions are NOT_STARTED -> PLAYING by a canvas tap,
\* PLAYING -> GAME_OVER by a tick that takes the last life, and GAME_OVER ->
\* PLAYING by a canvas tap; started never becomes false again, and a canvas
\* tap while PLAYING changes no game state.
C5_PhaseTransitions ==
    [][/\ started => started'
       /\ ~started => ~gameOver'
       /\ (~started /\ started') => (IsTap /\ ~gameOver')
       /\ (started /\ ~gameOver /\ gameOver')
            => (IsTick /\ ship'.lives = ship.lives - 1 /\ ship'.lives <= 0)
       /\ (started /\ gameOver /\ ~gameOver') => (IsTap /\ started')
       /\ (IsTap /\ started /\ ~gameOver)
            => UNCHANGED <<score, wave, ship, bullets, asteroids, saucers,
                           saucerBullets, particles, saucerNextSpawn, started,
                           gameOver>>
    ]_vars

\* a second session is being played and a tap was received while playing
C5_SecondSession ==
    started /\ ~gameOver /\ sessions = 2 /\ taps = 3 /\ ship.lives < START_LIVES

FreshGame ==
    /\ started /\ ~gameOver
    /\ score = 0 /\ wave = 1
    /\ ship.lives = START_LIVES /\ ship.invuln = 0
    /\ ship.vx = 0 /\ ship.vy = 0
    /\ ship.x = Centre.x /\ ship.y = Centre.y
    /\ bullets = << >> /\ saucers = << >> /\ saucerBullets = << >>
    /\ particles = << >>
    /\ Len(asteroids) = FIRST_WAVE

\* C6: immediately after a start tap (from NOT_STARTED) or a restart tap
\* (from GAME_OVER) the game is started and not over, score is 0, wave is 1,
\* the ship is fresh (3 lives, invuln 0, at rest at the world centre),
\* bullets, saucers, saucer bullets and particles are empty and there are
\* exactly 5 asteroids.
C6_ResetState ==
    [][(IsTap /\ (~started \/ gameOver)) => FreshGame']_vars

\* the state right after a restart
C6_Restarted == sessions = 2 /\ FreshGame

\* C7: while started is false, a tick changes neither the ship, nor a
\* collection, nor score, wave or saucerNextSpawn; it schedules no wave timer
\* and spawns no saucer.
C7_TickBeforeStartIsNoOp ==
    [][(~started /\ IsTick)
         => UNCHANGED <<ship, bullets, asteroids, particles, saucers,
                        saucerBullets, score, wave, saucerNextSpawn, waveTimers,
                        started, gameOver>>]_vars

\* frames have passed before the start, the ship was told to turn and the
\* saucer timer has run out
C7_IdleFrames ==
    ~started /\ ticks > 1 /\ ship.rot # 0 /\ lastTime >= saucerNextSpawn

\* the asteroids of h.before without the one that was hit
Survivors(h) ==
    LET j == CHOOSE k \in 1..Len(h.before.asteroids) : h.before.asteroids[k] = h.target
    IN  RemoveAt(h.before.asteroids, j)

AsteroidHitOK(h) ==
    LET kids == SubSeq(h.after.asteroids, Len(h.before.asteroids),
                       Len(h.after.asteroids))
    IN  /\ h.after.score = h.before.score + ASTEROID_SCORE
        /\ Len(h.after.bullets) = Len(h.before.bullets) - 1
        /\ \E i \in 1..Len(h.before.bullets) :
              /\ h.before.bullets[i] = h.bullet
              /\ h.after.bullets = RemoveAt(h.before.bullets, i)
        /\ \E k \in 1..Len(h.before.asteroids) : h.before.asteroids[k] = h.target
        /\ SubSeq(h.after.asteroids, 1, Len(h.before.asteroids) - 1) = Survivors(h)
        /\ IF h.target.r > SPLIT_R * Unit
           THEN /\ Len(h.after.asteroids) = Len(h.before.asteroids) + 1
                /\ \A k \in 1..Len(kids) : 2 * kids[k].r = h.target.r
           ELSE Len(h.after.asteroids) = Len(h.before.asteroids) - 1

\* C8: when a bullet destroys an asteroid of radius r, the asteroid is
\* removed; if r > 20 exactly 2 asteroids of radius r/2 are added, if r <= 20
\* none is added; score increases by exactly 100 and exactly that one bullet
\* is removed.
C8_AsteroidHit ==
    \A n \in 1..Len(hitLog) :
        hitLog[n].kind = "asteroid" => AsteroidHitOK(hitLog[n])

\* a bullet has destroyed an asteroid of radius 20 after another split one
C8_BothSizesHit ==
    /\ score = 2 * ASTEROID_SCORE
    /\ \E n \in 1..Len(hitLog) :
          hitLog[n].kind = "asteroid" /\ hitLog[n].target.r = SPLIT_R * Unit

\* C9 as stated: a ship whose invuln counter is > 0 when a tick begins loses
\* no life during that tick.
C9_InvulnOnEntry ==
    [][(IsTick /\ started /\ ship.invuln > 0) => ship'.lives >= ship.lives]_vars

\* C9: a ship whose invuln counter is > 1 when a tick begins (so > 0 after
\* Ship.update's decrement, when the collision checks run) loses no life
\* during that tick, even when an asteroid or a saucer bullet overlaps it.
C9_InvulnAtChecks ==
    [][(IsTick /\ started /\ ship.invuln > 1) => ship'.lives >= ship.lives]_vars

\* an invulnerable ship has come through a tick with an asteroid on top of it
C9_Protected ==
    /\ started /\ ~gameOver
    /\ ship.lives = START_LIVES - 1
    /\ ship.invuln > 1 /\ ship.invuln < ASTEROID_INVULN - 1
    /\ ShipOverlapsAsteroid

\* C10: lives decrease by at most 1 in a tick; the tick that takes a life
\* leaves the ship at rest at the world centre with the invulnerability of
\* the one hit that was applied (240 for a saucer bullet, which makes the
\* asteroid check skip; 90 for an asteroid), and a hit that leaves no life
\* ends the game.
C10_OneLifePerTick ==
    [][IsTick =>
         /\ ship'.lives >= ship.lives - 1
         /\ ship'.lives < ship.lives
              => /\ ship'.x = Centre.x /\ ship'.y = Centre.y
                 /\ ship'.vx = 0 /\ ship'.vy = 0
                 /\ ship'.invuln \in {SAUCER_BULLET_INVULN, ASTEROID_INVULN}
                 /\ ship'.lives <= 0 => gameOver'
    ]_vars

\* a saucer bullet has taken a life in a tick in which an asteroid overlaps
\* the world centre as well
C10_BulletThenAsteroid ==
    /\ ship.invuln = SAUCER_BULLET_INVULN
    /\ ship.lives = START_LIVES - 1
    /\ ShipOverlapsAsteroid

\* the updates a ship bullet survives at most: while it is alive, n updates
\* have taken it n * BULLET_SPEED along its path, less than
\* hypot(maxX, maxY)
BulletMaxTicks ==
    CHOOSE n \in 1..MaxFlightTicks :
        /\ (n * BULLET_SPEED) * (n * BULLET_SPEED)
             >= (BulletMaxX \div Unit) * (BulletMaxX \div Unit)
                  + (BulletMaxY \div Unit) * (BulletMaxY \div Unit)
        /\ \A m \in 1..(n - 1) :
             (m * BULLET_SPEED) * (m * BULLET_SPEED)
               < (BulletMaxX \div Unit) * (BulletMaxX \div Unit)
                   + (BulletMaxY \div Unit) * (BulletMaxY \div Unit)

\* the updates a saucer bullet survives at most
SaucerBulletMaxTicks ==
    CHOOSE n \in 1..MaxFlightTicks :
        /\ n * SaucerBulletSpeed >= SaucerBulletMaxDist
        /\ (n - 1) * SaucerBulletSpeed < SaucerBulletMaxDist

\* C11: every ship bullet and every saucer bullet is out of its collection
\* after a number of ticks fixed by its speed and range alone (200 for a ship
\* bullet, 219 for a saucer bullet), whatever its heading and however often
\* it wraps.
C11_BulletsExpire ==
    /\ BulletMaxTicks = 200
    /\ SaucerBulletMaxTicks = 219
    /\ ticks >= BulletMaxTicks => bullets = << >>
    /\ ticks >= SaucerBulletMaxTicks => saucerBullets = << >>

\* a ship bullet and a saucer bullet are in flight one tick before the ship
\* bullet's bound
C11_LongestFlight ==
    /\ ticks = BulletMaxTicks - 1
    /\ bullets # << >>
    /\ saucerBullets # << >>

\* a wave timer is pending that comes due within the delay of 600 ms
TimerPending ==
    \E t \in waveTimers : t <= lastTime + Frames(WAVE_DELAY_MS)

\* a wave timer has come due
TimerDue == \E t \in waveTimers : t <= lastTime

\* C12: whenever the asteroid collection is empty at the end of a tick while
\* started, a regeneration is pending and, once its delay has passed, the
\* collection is eventually repopulated; the regeneration increments wave by
\* exactly 1 and leaves exactly 5 + (wave - 1) asteroids, wave being the
\* incremented value.
C12_WaveRegenerates ==
    /\ []((started /\ Len(asteroids) = 0) => TimerPending)
    /\ [][(started /\ Len(asteroids) = 0 /\ Len(asteroids') # 0 /\ ~IsTap)
            => (wave' = wave + 1 /\ Len(asteroids') = FIRST_WAVE + (wave' - 1))]_vars
    /\ ((started /\ Len(asteroids) = 0 /\ TimerDue)
          ~> (wave >= 2 /\ Len(asteroids) = FIRST_WAVE + (wave - 1)))

\* the second wave has just arrived
C12_SecondWave == started /\ wave = 2 /\ Len(asteroids) = FIRST_WAVE + 1

\* C13: asteroids and wave change only inside a tick or inside the
\* start / restart reset, never in the wave timer's callback.
C13_TimerOnlyRequests ==
    [][(asteroids' # asteroids \/ wave' # wave) => (IsTick \/ IsTap)]_vars

\* C14: the membership of bullets changes only during loop() or in the
\* start / restart reset, never in a fire event between two ticks.
C14_BulletsChangeInTicksOnly ==
    [][(Len(bullets') # Len(bullets)) => (IsTick \/ IsTap)]_vars

\* C15: a resize changes only presentation state: every entity, score, wave
\* and lives are as before it, the world extent is the fixed VW x VH, and no
\* tick or other handler touches the presentation state.
C15_ResizeIsPresentationOnly ==
    [][/\ (view' # view)
            => /\ UNCHANGED <<ship, bullets, asteroids, particles, saucers,
                              saucerBullets, score, wave, started, gameOver,
                              lastTime, saucerNextSpawn, waveTimers, hitLog, shipLog, emptiedAt, probe, loops>>
               /\ ~IsTick /\ ~IsTap
               /\ VW * view'.SCALE <= 1000 * view'.w
               /\ VH * view'.SCALE <= 1000 * view'.h
       /\ (IsTick \/ IsTap) => view' = view
    ]_vars

\* the window has been resized in a game in which a bullet has scored
C15_ResizedInPlay ==
    started /\ view # resizeCanvas(InitialScreen) /\ score > 0 /\ ticks = MaxTicks

\* C16: in the hardcore build, a ship bullet whose dist has reached maxDist
\* is removed from bullets in that tick: no bullet that is not alive is in
\* the collection after a tick, and none hits an asteroid.
C16_HardcoreDeadBulletsRemoved ==
    /\ \A i \in 1..Len(bullets) : HardcoreBulletAlive(bullets[i])
    /\ \A n \in 1..Len(hitLog) : HardcoreBulletAlive(hitLog[n].bullet)

\* C17: in the polished build a ship bullet is carried over a world edge at
\* most once on each axis before it is removed, for every heading and every
\* window size.
C17_PolishedBulletWrapsOnce ==
    \A i \in 1..Len(bullets) :
        ("crossedX" \in DOMAIN bullets[i]) =>
            bullets[i].crossedX <= 1 /\ bullets[i].crossedY <= 1

\* C18: in the fixed build, whenever a saucer is destroyed by a bullet or
\* leaves the screen, no saucer sound is tracked as playing at the end of the
\* tick that removes it, also when its fireTimer runs out in the update that
\* marks it dead.
C18_FixedRemovedSaucerIsSilent ==
    [][Len(saucers') < Len(saucers) => ~activeSaucerSound']_vars

\* C19: ship.invuln changes in three ways only. A started tick that takes no
\* life decrements it by exactly 1 while it is > 0 and leaves it at 0
\* otherwise; a started tick that takes a life (possible only when the
\* counter is 0 after the decrement, at the collision checks) sets it to
\* the recovery window of the hit, 240 or 90; the start / restart reset makes
\* it 0. No other step changes it, and it is never negative.
C19_InvulnLifecycle ==
    [][/\ ship'.invuln >= 0
       /\ IF IsTick /\ started
          THEN \/ /\ ship'.lives = ship.lives
                  /\ ship'.invuln = IF ship.invuln > 0 THEN ship.invuln - 1 ELSE 0
               \/ /\ ship.invuln <= 1
                  /\ ship'.lives = ship.lives - 1
                  /\ ship'.invuln \in {SAUCER_BULLET_INVULN, ASTEROID_INVULN}
          ELSE IF IsTap /\ (~started \/ gameOver)
          THEN ship'.invuln = 0
          ELSE ship'.invuln = ship.invuln
    ]_vars

\* in a second session, the ship has lost a life and its counter has run down
\* from the recovery window of that hit
C19_CountdownAfterRestart ==
    /\ sessions = 2
    /\ ship.lives = START_LIVES - 1
    /\ ship.invuln > 0 /\ ship.invuln < ASTEROID_INVULN - 2

\* the number of elements of seq equal to e
Count(seq, e) == Cardinality({k \in 1..Len(seq) : seq[k] = e})

\* the saucers of registry reg that bullet b overlaps
Overlapped(b, reg) ==
    {k \in 1..Len(reg) : distLess(b.x, b.y, reg[k].x, reg[k].y, reg[k].r)}

\* hit n of a collision pass with the hits log
OneHitOK(log, n) ==
    LET e == log[n]
    IN  /\ n > 1 => e.before = log[n - 1].after
        /\ Len(e.after.bullets) = Len(e.before.bullets) - 1
        /\ Count(e.after.bullets, e.bullet) = Count(e.before.bullets, e.bullet) - 1
        /\ e.kind = "asteroid" =>
              /\ e.after.saucers = e.before.saucers
              /\ e.after.score = e.before.score + ASTEROID_SCORE
              /\ Count(e.after.asteroids, e.target) =
                    Count(e.before.asteroids, e.target) - 1
        /\ e.kind = "saucer" =>
              /\ e.after.asteroids = e.before.asteroids
              /\ e.after.score = e.before.score + SAUCER_SCORE
              /\ Len(e.after.saucers) = Len(e.before.saucers) - 1
              /\ Count(e.after.saucers, e.target) = Count(e.before.saucers, e.target) - 1

\* C20: within the collision pass of a tick each hit removes exactly one
\* bullet and exactly one target, at once (the next hit works on what the
\* previous one left), so a bullet destroys at most one target and a target
\* is destroyed by at most one bullet; a bullet that overlaps an asteroid and
\* a saucer destroys the asteroid only (score + 100), and that saucer is in
\* saucers after the tick unless a later hit of the pass destroyed it.
C20_OneTargetPerBullet ==
    [][IsTick =>
         \A n \in 1..Len(hitLog') :
             /\ OneHitOK(hitLog', n)
             /\ hitLog'[n].kind = "asteroid" =>
                   \A k \in Overlapped(hitLog'[n].bullet, hitLog'[n].before.saucers) :
                       LET sc == hitLog'[n].before.saucers[k]
                       IN  \/ \E m \in (n + 1)..Len(hitLog') :
                                 hitLog'[m].kind = "saucer" /\ hitLog'[m].target = sc
                           \/ \E q \in 1..Len(saucers') :
                                 saucers'[q].x = sc.x /\ saucers'[q].y = sc.y
    ]_vars

\* a single bullet that overlapped an asteroid and a saucer has destroyed the
\* asteroid, and the saucer is still there
C20_BulletOverBoth ==
    /\ Len(hitLog) = 1
    /\ hitLog[1].kind = "asteroid"
    /\ Overlapped(hitLog[1].bullet, hitLog[1].before.saucers) # {}
    /\ Len(saucers) = 1
    /\ score = ASTEROID_SCORE

\* of two bullets that overlapped the same asteroid and saucer, one has
\* destroyed the asteroid and the other the saucer
C20_TwoBulletsOverBoth ==
    /\ Len(hitLog) = 2
    /\ hitLog[1].kind = "asteroid"
    /\ hitLog[2].kind = "saucer"
    /\ hitLog[1].bullet = hitLog[2].bullet
    /\ score = ASTEROID_SCORE + SAUCER_SCORE

\* C21: a saucer hit logged in a tick is the hit of a bullet that overlaps
\* the saucer and no asteroid; it removes exactly that saucer and exactly
\* that bullet, leaves the asteroids alone, stops the loop sound of the saucer
\* and adds exactly 1000 to the score. No bullet that is left after a started
\* tick overlaps a saucer that is left after it.
C21_SaucerHit ==
    [][IsTick =>
         /\ \A n \in 1..Len(hitLog') :
               hitLog'[n].kind = "saucer" =>
                   LET e == hitLog'[n]
                   IN  /\ distLess(e.bullet.x, e.bullet.y, e.target.x, e.target.y, e.target.r)
                       /\ \A j \in 1..Len(e.before.asteroids) :
                              ~distLess(e.bullet.x, e.bullet.y, e.before.asteroids[j].x,
                                        e.before.asteroids[j].y, e.before.asteroids[j].r)
                       /\ \E k \in 1..Len(e.before.saucers) :
                              /\ e.before.saucers[k] = e.target
                              /\ e.after.saucers = RemoveAt(e.before.saucers, k)
                       /\ \E k \in 1..Len(e.before.bullets) :
                              /\ e.before.bullets[k] = e.bullet
                              /\ e.after.bullets = RemoveAt(e.before.bullets, k)
                       /\ e.after.asteroids = e.before.asteroids
                       /\ ~e.destroyed.sound
                       /\ e.after.score = e.before.score + SAUCER_SCORE
         /\ started =>
               \A i \in 1..Len(bullets') : Overlapped(bullets'[i], saucers') = {}
    ]_vars

\* a bullet has destroyed a saucer whose loop sound was playing
C21_SoundingSaucerHit ==
    /\ Len(hitLog) = 1
    /\ hitLog[1].kind = "saucer"
    /\ hitLog[1].target.sound
    /\ score = SAUCER_SCORE

\* C22: a hit of the ship by a saucer bullet happens with invuln = 0 and the
\* bullet within ship.r; it removes that saucer bullet and no other, takes
\* one life, puts the ship at rest at the world centre with invuln = 240 and
\* every other field of the ship (heading, rotation rate) as it was, leaves
\* score, bullets and asteroids alone, and the game is over after it iff no
\* life is left. After a started tick that leaves invuln = 0 no saucer
\* bullet is within ship.r of the ship.
C22_SaucerBulletDamage ==
    [][IsTick =>
         /\ \A n \in 1..Len(shipLog') :
               shipLog'[n].kind = "saucerBullet" =>
                   LET e  == shipLog'[n]
                       sb == e.before.saucerBullets[e.index]
                   IN  /\ e.before.ship.invuln = 0
                       /\ distLess(sb.x, sb.y, e.before.ship.x, e.before.ship.y,
                                   SHIP_R * Unit)
                       /\ e.after.saucerBullets = RemoveAt(e.before.saucerBullets, e.index)
                       /\ e.after.ship =
                             [e.before.ship EXCEPT !.lives = e.before.ship.lives - 1,
                                                   !.x = Centre.x, !.y = Centre.y,
                                                   !.vx = 0, !.vy = 0,
                                                   !.invuln = SAUCER_BULLET_INVULN]
                       /\ e.after.gameOver <=> e.after.ship.lives <= 0
                       /\ e.after.score = e.before.score
                       /\ e.after.bullets = e.before.bullets
                       /\ e.after.asteroids = e.before.asteroids
         /\ (started /\ ship'.invuln = 0) =>
               \A i \in 1..Len(saucerBullets') :
                   ~distLess(saucerBullets'[i].x, saucerBullets'[i].y,
                             ship'.x, ship'.y, SHIP_R * Unit)
    ]_vars

\* a saucer bullet has hit the ship while it was turning
C22_HitWhileTurning ==
    /\ Len(shipLog) = 1
    /\ shipLog[1].kind = "saucerBullet"
    /\ shipLog[1].before.ship.rot # 0

\* C23: a hit of the ship by an asteroid leaves ship.invuln at the value a
\* hit by a saucer bullet leaves it at: every hit of the ship, of either
\* kind, ends with the same recovery window.
C23_SameRecoveryWindow ==
    \A n \in 1..Len(shipLog) :
        shipLog[n].after.ship.invuln = SAUCER_BULLET_INVULN

\* C24: a hit of the ship by an asteroid happens with the asteroid within
\* ship.r + a.r and leaves asteroids (the one that hit included), bullets,
\* saucer bullets and score as they were, and so does the rest of the tick.
C24_CrashLeavesCollections ==
    [][IsTick =>
         \A n \in 1..Len(shipLog') :
             shipLog'[n].kind = "asteroid" =>
                 LET e == shipLog'[n]
                     a == e.before.asteroids[e.index]
                 IN  /\ distLess(e.before.ship.x, e.before.ship.y, a.x, a.y,
                                 SHIP_R * Unit + a.r)
                     /\ e.after.asteroids = e.before.asteroids
                     /\ e.after.bullets = e.before.bullets
                     /\ e.after.saucerBullets = e.before.saucerBullets
                     /\ e.after.score = e.before.score
                     /\ asteroids' = e.before.asteroids
                     /\ bullets' = e.before.bullets
                     /\ saucerBullets' = e.before.saucerBullets
                     /\ score' = e.before.score
    ]_vars

\* an asteroid has hit the ship with a bullet in flight
C24_CrashWithBulletInFlight ==
    /\ Len(shipLog) = 1
    /\ shipLog[1].kind = "asteroid"
    /\ Len(shipLog[1].before.bullets) >= 1
    /\ Len(bullets) >= 1

\* C25: the asteroids are regenerated no sooner than 600 ms after the tick
\* that emptied the collection, also when timers of an earlier empty period
\* are still pending.
C25_RegenerationWaitsForDelay ==
    [][(wave' = wave + 1) => lastTime >= emptiedAt + Frames(WAVE_DELAY_MS)]_vars

\* a step of the wave timer's callback
IsTimer == waveTimers' # waveTimers /\ ~IsTick /\ ~IsTap

\* C26: a wave timer callback that runs while the asteroid collection is
\* non-empty changes neither asteroids nor wave.
C26_StaleCallbackIsNoOp ==
    [][(IsTimer /\ Len(asteroids) # 0) => UNCHANGED <<asteroids, wave>>]_vars

\* the second callback of the first empty period has run on the second wave
C26_DuplicateServed ==
    /\ started /\ wave = 2 /\ Len(asteroids) # 0
    /\ waveTimers # {}
    /\ \A t \in waveTimers : t > emptiedAt + Frames(WAVE_DELAY_MS) + 1

\* C27: wave is incremented only by 1, only in a state with asteroids empty
\* and into a state with asteroids non-empty, so at most once per period in
\* which the collection is empty; wave >= 1 always.
C27_OneIncrementPerEmptyPeriod ==
    /\ [](wave >= 1)
    /\ [][(wave' > wave)
            => (Len(asteroids) = 0 /\ Len(asteroids') # 0 /\ wave' = wave + 1)]_vars

\* the third wave has just arrived while later timers are still pending
C27_ThirdWaveTimersPending ==
    /\ wave = MaxBurstWave /\ Len(asteroids) = FIRST_WAVE + (wave - 1)
    /\ Cardinality(waveTimers) > 1

\* saucerNextSpawn has just been drawn
Redrawn ==
    saucerNextSpawn' - lastTime' \in Frames(SAUCER_SPAWN_MIN)..Frames(SAUCER_SPAWN_MAX)

\* C28: saucerNextSpawn is redrawn as now + a value in [SAUCER_SPAWN_MIN,
\* SAUCER_SPAWN_MAX] by the tap that starts or restarts a session, in every
\* tick that spawns a saucer and in every tick in which a bullet destroys a
\* saucer.
C28_SpawnTimeRedrawn ==
    [][/\ (IsTap /\ (~started \/ gameOver)) => Redrawn
       /\ (IsTick /\ Len(saucers') > 0
             /\ \E d \in SaucerDraws : saucers'[Len(saucers')] = NewSaucer(d, buffers'))
            => Redrawn
       /\ (IsTick /\ \E n \in 1..Len(hitLog') : hitLog'[n].kind = "saucer")
            => Redrawn
    ]_vars

\* the saucer m, moved in this tick, is still in saucers after it
SaucerStays(m) ==
    \E j \in 1..Len(saucers') :
        /\ saucers'[j].x = m.x /\ saucers'[j].y = m.y
        /\ saucers'[j].side = m.side /\ saucers'[j].speed = m.speed

\* a bullet has destroyed the saucer m in this tick
SaucerShot(m) ==
    \E n \in 1..Len(hitLog') :
        /\ hitLog'[n].kind = "saucer"
        /\ hitLog'[n].target.x = m.x /\ hitLog'[n].target.y = m.y

\* m is more than 80 beyond the edge it is heading toward
SaucerExited(m) ==
    \/ (m.side < 0 /\ m.x > VWu + SAUCER_MARGIN * Unit)
    \/ (m.side > 0 /\ m.x < -(SAUCER_MARGIN * Unit))

\* a saucer bullet fired from the place of m in this tick is in saucerBullets
SaucerShotFrom(m) ==
    \E j \in 1..Len(saucerBullets'), k \in 1..16 :
        saucerBullets'[j] = SaucerBulletUpdate(NewSaucerBullet(m.x, m.y, Compass[k]))

\* C29: saucers changes in ticks while started and in the start / restart
\* tap only; a saucer that a started tick takes out of saucers was either
\* destroyed by a bullet in that tick or moved more than 80 beyond the edge it
\* is heading toward, and then it did not fire in that tick; no other step
\* and no contact with the ship or an asteroid removes it.
C29_SaucerLeaves ==
    [][/\ (~IsTick /\ ~IsTap) => saucers' = saucers
       /\ (IsTick /\ ~started) => saucers' = saucers
       /\ (IsTap /\ saucers' # saucers) => ((~started \/ gameOver) /\ saucers' = << >>)
       /\ (IsTick /\ started) =>
             \A i \in 1..Len(saucers) :
                 LET m == SaucerMove(saucers[i], lastTime' - lastTime)
                 IN  \/ SaucerStays(m)
                     \/ SaucerShot(m)
                     \/ (SaucerExited(m) /\ ~SaucerShotFrom(m))
    ]_vars

\* a saucer has fired and left the world: its bullet is in flight, there was
\* no hit and no restart
C29_SaucerGone ==
    /\ started /\ sessions = 1 /\ score = 0
    /\ Len(saucers) = 0
    /\ Len(saucerBullets) > 0

\* the square of the plain distance between p and q, on unwrapped coordinates
EuclidSq(p, q) == (p.x - q.x) * (p.x - q.x) + (p.y - q.y) * (p.y - q.y)

\* p and q are no farther apart than r >= 0 along either axis
Near(p, q, r) == Abs(p.x - q.x) <= r /\ Abs(p.y - q.y) <= r

\* the plain distance between p and q is strictly below r >= 0
StrictlyWithin(p, q, r) == Near(p, q, r) /\ EuclidSq(p, q) < r * r

\* the plain distance between p and q is exactly r >= 0
ExactlyAt(p, q, r) == Near(p, q, r) /\ EuclidSq(p, q) = r * r

\* C30: every collision a tick acts on is a strict one on the plain distance:
\* a bullet destroys an asteroid or a saucer only within the target's r, a
\* saucer bullet hits the ship only within ship.r, an asteroid hits the ship
\* only within ship.r + a.r. And every strict overlap is acted on: after a
\* started tick without a bullet hit no bullet is within the r of an asteroid
\* or a saucer, and after one that leaves the ship vulnerable and unhurt no
\* saucer bullet is within ship.r and no asteroid within ship.r + a.r. A
\* distance equal to the radius sum is no collision.
C30_StrictCircleTests ==
    [][IsTick =>
         /\ \A n \in 1..Len(hitLog') :
               StrictlyWithin(hitLog'[n].bullet, hitLog'[n].target, hitLog'[n].target.r)
         /\ \A n \in 1..Len(shipLog') :
               LET e == shipLog'[n]
               IN  /\ e.kind = "saucerBullet" =>
                         StrictlyWithin(e.before.saucerBullets[e.index], e.before.ship,
                                        SHIP_R * Unit)
                   /\ e.kind = "asteroid" =>
                         StrictlyWithin(e.before.asteroids[e.index], e.before.ship,
                                        SHIP_R * Unit + e.before.asteroids[e.index].r)
         /\ (started /\ Len(hitLog') = 0) =>
               \A i \in 1..Len(bullets') :
                   /\ \A j \in 1..Len(asteroids') :
                          ~StrictlyWithin(bullets'[i], asteroids'[j], asteroids'[j].r)
                   /\ \A j \in 1..Len(saucers') :
                          ~StrictlyWithin(bullets'[i], saucers'[j], saucers'[j].r)
         /\ (started /\ ship'.invuln = 0 /\ Len(shipLog') = 0) =>
               /\ \A i \in 1..Len(saucerBullets') :
                      ~StrictlyWithin(saucerBullets'[i], ship', SHIP_R * Unit)
               /\ \A j \in 1..Len(asteroids') :
                      ~StrictlyWithin(asteroids'[j], ship', SHIP_R * Unit + asteroids'[j].r)
    ]_vars

\* a vulnerable ship and an asteroid have come through a tick exactly
\* ship.r + a.r apart, without a hit
C30_Touching ==
    /\ started /\ ticks > 0 /\ ship.invuln = 0
    /\ ship.lives = START_LIVES /\ Len(shipLog) = 0
    /\ \E j \in 1..Len(asteroids) :
          /\ ExactlyAt(asteroids[j], ship, SHIP_R * Unit + asteroids[j].r)
          /\ asteroids[j].dy # 0

\* ((c mod n) + n) mod n, mod being the remainder operator of the language
DoubleMod(c, n) == JsMod(JsMod(c, n) + n, n)

C32_CoastAddsVelocity ==
    [][(IsTick /\ started /\ ~ship.thrusting /\ Len(shipLog') = 0)
         => (ship'.x = wrapX(ship.x + ship.vx) /\ ship'.y = wrapY(ship.y + ship.vy))]_vars

\* a control event (a key or button of thrust, left or right) or a fire event
IsEvent == events' = events + 1

\* C33: ship.thrusting and ship.rot change in control events only: no tick,
\* no game-over handling and no start or restart changes either of them.
C33_ControlsSetByEventsOnly ==
    [][(ship'.thrusting # ship.thrusting \/ ship'.rot # ship.rot) => IsEvent]_vars

\* a fire event: an event that leaves the ship's flags alone
IsFire == IsEvent /\ ship' = ship

\* C34: a fire event while the game is not started or is over changes
\* nothing; a fire event while playing appends exactly one bullet and changes
\* nothing else.
C34_FireOnlyWhilePlaying ==
    [][IsFire =>
         /\ UNCHANGED <<ship, asteroids, particles, saucers, saucerBullets, score, wave,
                        started, gameOver, lastTime, saucerNextSpawn, waveTimers,
                        buffers, activeThrust, activeSaucerSound>>
         /\ IF started /\ ~gameOver
            THEN /\ Len(bullets') = Len(bullets) + 1
                 /\ SubSeq(bullets', 1, Len(bullets)) = bullets
            ELSE bullets' = bullets
    ]_vars

\* a fire event has come before the first tap, and nothing else
C34_FiredBeforeStart ==
    ~started /\ events = 1 /\ ship = NewShip /\ bullets = << >>

\* C35: when the game is over the ship has no life left, lives <= 0; while
\* playing it has 1 to 3 lives; lives grows in no step but the start /
\* restart tap, which sets it to 3.
C35_LivesAndPhase ==
    /\ [](gameOver => ship.lives <= 0)
    /\ []((started /\ ~gameOver) => (1 <= ship.lives /\ ship.lives <= START_LIVES))
    /\ [][(ship'.lives > ship.lives) => (IsTap /\ ship'.lives = START_LIVES)]_vars

\* the game is over and a further hit has taken lives below 0
C35_OverBelowZero == gameOver /\ ship.lives < 0

\* the hits of kind k in log
HitsOfKind(log, k) == Cardinality({n \in 1..Len(log) : log[n].kind = k})

\* the bullets that are left when a tick has moved and filtered them
FlownBullets ==
    SelectSeq([i \in 1..Len(bullets) |-> BulletUpdate(bullets[i])], BulletAlive)

\* C36: score is a non-negative multiple of 100; it goes down in the start /
\* restart tap only, to 0; a tick adds exactly 100 for every asteroid and
\* 1000 for every saucer it destroys, and it destroys as many targets as
\* its collision pass removes bullets; no other step changes the score.
C36_ScoreAccounting ==
    /\ [](score >= 0 /\ score % ASTEROID_SCORE = 0)
    /\ [][/\ (score' < score) => (IsTap /\ score' = 0)
          /\ (~IsTick /\ ~IsTap) => score' = score
          /\ IsTick =>
                /\ score' - score = ASTEROID_SCORE * HitsOfKind(hitLog', "asteroid")
                                      + SAUCER_SCORE * HitsOfKind(hitLog', "saucer")
                /\ Len(hitLog') = HitsOfKind(hitLog', "asteroid")
                                      + HitsOfKind(hitLog', "saucer")
                /\ started => Len(FlownBullets) - Len(bullets') = Len(hitLog')
         ]_vars

\* one tick has destroyed an asteroid and a saucer
C36_BothKindsInOneTick ==
    /\ Len(hitLog) = 2
    /\ hitLog[1].kind # hitLog[2].kind
    /\ score = ASTEROID_SCORE + SAUCER_SCORE

\* the hits it takes to destroy an asteroid of radius r and all its
\* descendants
RECURSIVE Destructions(_)
Destructions(r) == IF Splits(r) THEN 1 + 2 * Destructions(r \div 2) ELSE 1

\* the hits it takes to clear the asteroids a(lo), .., a(Len(a))
RECURSIVE HitsToClear(_, _)
HitsToClear(a, lo) ==
    IF lo > Len(a) THEN 0 ELSE Destructions(a[lo].r) + HitsToClear(a, lo + 1)

\* C37: the asteroid collection never holds more than 4 x (5 + (wave - 1))
\* asteroids and can always be cleared by at most 7 x (5 + (wave - 1)) hits;
\* every hit of an asteroid in a tick brings the number of hits it takes
\* to clear the collection down by exactly 1, so splitting terminates.
C37_SplittingIsBounded ==
    /\ [](Len(asteroids) <= 4 * (FIRST_WAVE + (wave - 1)))
    /\ [](HitsToClear(asteroids, 1) <= 7 * (FIRST_WAVE + (wave - 1)))
    /\ [][IsTick => HitsToClear(asteroids', 1)
                      = HitsToClear(asteroids, 1) - HitsOfKind(hitLog', "asteroid")]_vars

\* the child of a child is in the collection: an asteroid a quarter the size
\* of the largest of LayoutBoulders
C37_SecondGeneration ==
    \E i \in 1..Len(asteroids) : asteroids[i].r = Px(43) \div 4

\* how far saucer s is from the exit margin beyond the edge it heads toward
DistanceToExit(s) ==
    IF s.side < 0 THEN VWu + SAUCER_MARGIN * Unit - s.x ELSE s.x + SAUCER_MARGIN * Unit

\* saucer s is in saucers after this tick, moved by speed * dt toward the
\* far edge, everything else about its flight as it was
SaucerAdvanced(s, dt) ==
    \E j \in 1..Len(saucers') :
        /\ saucers'[j].x = s.x + s.speed * dt
        /\ saucers'[j].y = s.y
        /\ saucers'[j].side = s.side
        /\ saucers'[j].speed = s.speed
        /\ DistanceToExit(saucers'[j]) <= DistanceToExit(s) - 120 * dt

\* C38: a saucer in the collection has not passed its exit margin and flies
\* toward it at 1.2 px per frame time or more; a started tick of dt > 0
\* either takes it out of the collection or moves it speed * dt nearer to
\* the margin and leaves its y alone; so, frames coming, every saucer is
\* eventually out of the collection.
C38_SaucersLeave ==
    /\ [](\A i \in 1..Len(saucers) :
            /\ DistanceToExit(saucers[i]) >= 0
            /\ saucers[i].side < 0 => saucers[i].speed >= 120
            /\ saucers[i].side > 0 => saucers[i].speed <= -120)
    /\ [][(IsTick /\ started /\ lastTime' > lastTime) =>
            \A i \in 1..Len(saucers) :
                \/ SaucerAdvanced(saucers[i], lastTime' - lastTime)
                \/ Len(saucers') < Len(saucers)
                \/ saucers'[Len(saucers')].x \in {-(SAUCER_START * Unit),
                                                  VWu + SAUCER_START * Unit}]_vars
    /\ (Len(saucers) > 0) ~> (Len(saucers) = 0)

\* the slowest saucer has crossed the world and left it
C38_SlowestCrossed ==
    /\ Len(saucers) = 0 /\ sessions = 1
    /\ lastTime >= Frames(SAUCER_SPAWN_MIN) + (VW + SAUCER_START + SAUCER_MARGIN)
    /\ ticks > MaxCrossTicks

\* C39: the loop sources that were started and not stopped are exactly
\* those held by the saucers in the saucers collection: none plays on for
\* a saucer that is gone.
C39_NoOrphanLoop == loops = Sounding(saucers)

\* the game is over with a saucer in the world that was built with a loop
\* and has been silenced
C39_SilencedAtGameOver ==
    /\ gameOver /\ buffers /\ loops = 0
    /\ \E i \in 1..Len(saucers) : ~saucers[i].sound

=============================================================================
